---- MODULE Spec2Model ----
(***************************************************************************)
(* A model of pymambo's Mambo.py: the BLE protocol client of the Parrot    *)
(* Mambo.  The program is single threaded Python: one call stack, on which *)
(* the notification delegate runs inside waitForNotifications.  The model  *)
(* keeps that call stack explicitly ("stack"), one frame per active        *)
(* function of Mambo.py, and one action per step of the function on top.   *)
(* The transport (bluepy) and the drone are the environment: a transport   *)
(* call fails with BTLEException exactly when the link is down, the link   *)
(* may drop at any moment, and the drone sends notifications.              *)
(***************************************************************************)
EXTENDS Integers, Sequences, FiniteSets, TLC

(***************************************************************************)
(* Bounds of the model.                                                    *)
(***************************************************************************)
\* public calls the caller makes after connect has returned
MaxOps == 2
\* notifications the drone sends of its own accord (telemetry, stray acks)
MaxNotes == 1
\* times the radio link drops
MaxDrops == 1
\* service scans the transport answers during one run of _connect
MaxScans == 2
\* iterations of fly_direct's duration loop
MaxFlyIters == 2
\* calls of connect the caller makes
MaxConnects == 1

\* the calls, loop rounds and notifications of the long runs of SpecWrap
WrapLen == 258

\* notifications the drone sends in SpecTelemetry
MaxTelNotes == 2
MaxFlyOps == 1
MaxLiveOps == 1
\* the timeout, in seconds, of the safe_takeoff the caller makes
TakeoffTimeout == 3
\* calls of safe_takeoff the caller makes
MaxTakeoffOps == 1
\* calls the caller makes in SpecIdle
MaxIdleOps == 3
\* notifications the drone sends in SpecTakeoff
MaxTakeoffNotes == 2

(***************************************************************************)
(* Small helpers.                                                          *)
(***************************************************************************)
Range(f) == {f[k] : k \in DOMAIN f}

Top(s) == s[Len(s)]

Pop(s) == SubSeq(s, 1, Len(s) - 1)

\* Python values that may be an int, a string or None
None == [t |-> "none"]

PyInt(v) == [t |-> "int", v |-> v]

PyStr(s) == [t |-> "str", v |-> s]

\* index tuples of one length, ordered as nested for loops visit them
LexLeq(p, q) ==
    \E k \in 1..(Len(p) + 1) :
        /\ \A m \in 1..(k - 1) : p[m] = q[m]
        /\ (k = Len(p) + 1 \/ p[k] < q[k])

\* the first tuple of a non-empty set that nested loops reach
LexMin(S) == CHOOSE p \in S : \A q \in S : LexLeq(p, q)

(***************************************************************************)
(* Mambo.__init__: the fixed tables.                                       *)
(***************************************************************************)
characteristic_send_uuids ==
    ("0a" :> "SEND_NO_ACK") @@ ("0b" :> "SEND_WITH_ACK") @@
    ("0c" :> "SEND_HIGH_PRIORITY") @@ ("1e" :> "ACK_COMMAND")

characteristic_receive_uuids ==
    ("0e" :> "ACK_DRONE_DATA") @@ ("0f" :> "NO_ACK_DRONE_DATA") @@
    ("1b" :> "ACK_COMMAND_SENT") @@ ("1c" :> "ACK_HIGH_PRIORITY")

characteristic_ftp_uuids ==
    ("22" :> "NORMAL_FTP_TRANSFERRING") @@ ("23" :> "NORMAL_FTP_GETTING") @@
    ("24" :> "NORMAL_FTP_HANDLING") @@ ("52" :> "UPDATE_FTP_TRANSFERRING") @@
    ("53" :> "UPDATE_FTP_GETTING") @@ ("54" :> "UPDATE_FTP_HANDLING")

service_uuids ==
    (<<"fa", "00">> :> "ARCOMMAND_SENDING_SERVICE") @@
    (<<"fb", "00">> :> "ARCOMMAND_RECEIVING_SERVICE") @@
    (<<"fd", "21">> :> "NORMAL_BLE_FTP_SERVICE") @@
    (<<"fd", "51">> :> "UPDATE_BLE_FTP")

data_types ==
    [ACK |-> 1, DATA_NO_ACK |-> 2, LOW_LATENCY_DATA |-> 3, DATA_WITH_ACK |-> 4]

max_packet_retries == 3

\* the characteristics _connect keeps for the handshake (bytes 3 and 4 of the uuid)
HandshakeList ==
    {<<"fb", "0f">>, <<"fb", "0e">>, <<"fb", "1b">>, <<"fb", "1c">>,
     <<"fd", "22">>, <<"fd", "23">>, <<"fd", "24">>,
     <<"fd", "52">>, <<"fd", "53">>, <<"fd", "54">>}

HandshakeCount == 10

CounterWrap == 256

InitCounters ==
    [c \in {"SEND_NO_ACK", "SEND_WITH_ACK", "SEND_HIGH_PRIORITY", "ACK_COMMAND",
            "RECEIVE_WITH_ACK"} |-> 0]

InitReceived ==
    [c \in {"SEND_WITH_ACK", "SEND_HIGH_PRIORITY", "ACK_COMMAND"} |-> FALSE]

(***************************************************************************)
(* The drone's GATT table as the transport shows it.  A characteristic is  *)
(* known by bytes 3 and 4 of its uuid, <<b3, b4>>, which also stands for   *)
(* its handle; a service by the same two bytes.                            *)
(***************************************************************************)
ServiceOf(c) ==
    IF c[1] = "fa" THEN <<"fa", "00">>
    ELSE IF c[1] = "fb" THEN <<"fb", "00">>
    ELSE IF c[2] \in {"22", "23", "24"} THEN <<"fd", "21">>
    ELSE <<"fd", "51">>

AllChars ==
    {<<"fa", h>> : h \in DOMAIN characteristic_send_uuids} \cup
    {<<"fb", h>> : h \in DOMAIN characteristic_receive_uuids} \cup
    {<<"fd", h>> : h \in DOMAIN characteristic_ftp_uuids}

\* what one getServices/getCharacteristics round may show
ScanResults ==
    {AllChars, AllChars \ {<<"fb", "0e">>}, AllChars \ {<<"fa", "0b">>}}

(***************************************************************************)
(* The command dictionaries (minidrone.xml, common.xml) as untangle hands  *)
(* them over: project -> myclass -> cmd -> arg -> enum.  An excerpt with   *)
(* the entries the modelled calls and frames use.                          *)
(***************************************************************************)
Arg(n, t) == [name |-> n, type |-> t, enum |-> <<>>]

EnumArg(n, members) == [name |-> n, type |-> "enum", enum |-> members]

Cmd(i, n, args) == [id |-> i, name |-> n, arg |-> args]

Class(i, n, cmds) == [id |-> i, name |-> n, cmd |-> cmds]

minidrone_commands ==
    [id |-> 2,
     myclass |-> <<
        Class(0, "Piloting", <<
            Cmd(0, "FlatTrim", <<>>),
            Cmd(1, "TakeOff", <<>>),
            Cmd(2, "PCMD", <<Arg("flag", "u8"), Arg("roll", "i8"), Arg("pitch", "i8"),
                             Arg("yaw", "i8"), Arg("gaz", "i8"), Arg("timestamp", "u32")>>),
            Cmd(3, "Landing", <<>>)>>),
        Class(3, "PilotingState", <<
            Cmd(1, "FlyingStateChanged", <<
                EnumArg("state", <<"landed", "takingoff", "hovering", "flying">>)>>)>>),
        Class(4, "Animations", <<
            Cmd(0, "Flip", <<EnumArg("direction", <<"front", "back", "right", "left">>)>>),
            Cmd(1, "Cap", <<Arg("offset", "i16")>>)>>),
        Class(15, "UsbAccessoryState", <<
            Cmd(1, "ClawState", <<Arg("id", "u8"),
                                  EnumArg("state", <<"OPENED", "OPENING", "CLOSED", "CLOSING">>),
                                  Arg("list_flags", "u8")>>)>>)>>]

common_commands ==
    [id |-> 0,
     myclass |-> <<
        Class(4, "Common", <<Cmd(0, "AllStates", <<>>)>>),
        Class(5, "CommonState", <<
            Cmd(0, "AllStatesChanged", <<>>),
            Cmd(1, "BatteryStateChanged", <<Arg("battery_percent", "u8")>>)>>)>>]

(***************************************************************************)
(* struct.pack / struct.unpack_from, little-endian, no padding ("<").      *)
(***************************************************************************)
PackB(v) == <<v>>

Packb(v) == <<v % 256>>

Packh(v) == <<(v % 65536) % 256, (v % 65536) \div 256>>

PackI(v) == <<v % 256, (v \div 256) % 256, (v \div 65536) % 256, (v \div 16777216) % 256>>

\* bytes (least significant first) to an integer; two's complement when signed
RECURSIVE Horner(_, _, _)
Horner(bytes, k, acc) ==
    IF k = 0 THEN acc ELSE Horner(bytes, k - 1, acc * 256 + bytes[k])

UnpackInt(bytes, signed) ==
    LET n == Len(bytes)
        top == IF signed /\ bytes[n] >= 128 THEN bytes[n] - 256 ELSE bytes[n]
    IN  Horner(bytes, n - 1, top)

\* struct.unpack_from("<BBBBBB", data): six unsigned bytes
UnpackHeader(data) == [i \in 1..6 |-> UnpackInt(<<data[i]>>, FALSE)]

FormatSize(data_size) ==
    CASE data_size \in {"u8", "enum", "i8", "string"} -> 1
      [] data_size \in {"u16", "i16"} -> 2
      [] data_size \in {"u32", "i32", "float"} -> 4
      [] data_size \in {"u64", "i64", "double"} -> 8
      [] OTHER -> 0

\* the branch of _update_sensors for one data size: struct.unpack_from at offset 6
UnpackSensor(data, data_size) ==
    LET n == FormatSize(data_size)
        bytes == SubSeq(data, 7, 6 + n)
    IN  IF n = 0 THEN [exc |-> "", v |-> None]
        ELSE IF Len(data) - 6 < n THEN [exc |-> "struct.error", v |-> None]
        ELSE IF data_size \in {"u8", "enum", "u16", "u32", "u64"}
             THEN [exc |-> "", v |-> PyInt(UnpackInt(bytes, FALSE))]
        ELSE IF data_size \in {"i8", "i16", "i32", "i64"}
             THEN [exc |-> "", v |-> PyInt(UnpackInt(bytes, TRUE))]
        ELSE IF data_size = "string"
             THEN [exc |-> "", v |-> [t |-> "bytes", v |-> bytes]]
        ELSE [exc |-> "", v |-> [t |-> "float", v |-> bytes]]

(***************************************************************************)
(* Mambo._get_command_tuple, _get_command_tuple_with_enum: name -> ids.    *)
(* Each returns [ret, cache]; ret is None when the loops fall through.     *)
(***************************************************************************)
\* every <<class index, cmd index>> of a project
CmdIndexes(project) ==
    UNION {{<<i, j>> : j \in 1..Len(project.myclass[i].cmd)} : i \in 1..Len(project.myclass)}

NameMatches(project, myclass, cmd) ==
    {p \in CmdIndexes(project) :
        /\ project.myclass[p[1]].name = myclass
        /\ project.myclass[p[1]].cmd[p[2]].name = cmd}

TupleAt(project, p) ==
    <<project.id, project.myclass[p[1]].id, project.myclass[p[1]].cmd[p[2]].id>>

\* the two searches the other way round
SearchCommandTupleCommonFirst(device, common, myclass, cmd) ==
    IF NameMatches(common, myclass, cmd) # {}
    THEN [t |-> "tuple", v |-> TupleAt(common, LexMin(NameMatches(common, myclass, cmd)))]
    ELSE IF NameMatches(device, myclass, cmd) # {}
    THEN [t |-> "tuple", v |-> TupleAt(device, LexMin(NameMatches(device, myclass, cmd)))]
    ELSE None

\* the loops of _get_command_tuple over self.minidrone_commands (device), then
\* over self.common_commands (common)
SearchCommandTupleIn(device, common, myclass, cmd) ==
    IF NameMatches(device, myclass, cmd) # {}
    THEN [t |-> "tuple", v |-> TupleAt(device, LexMin(NameMatches(device, myclass, cmd)))]
    ELSE IF NameMatches(common, myclass, cmd) # {}
    THEN [t |-> "tuple", v |-> TupleAt(common, LexMin(NameMatches(common, myclass, cmd)))]
    ELSE None

SearchCommandTuple(myclass, cmd) ==
    SearchCommandTupleIn(minidrone_commands, common_commands, myclass, cmd)

\* the search made at every call and nothing kept
get_command_tuple_uncached(cache, myclass, cmd) ==
    [ret |-> SearchCommandTuple(myclass, cmd), cache |-> cache, scanned |-> TRUE]

\* _get_command_tuple of a Mambo whose dictionaries are device and common;
\* scanned: the loops over the dictionaries ran
get_command_tuple_in(device, common, cache, myclass, cmd) ==
    IF <<myclass, cmd>> \in DOMAIN cache
    THEN [ret |-> cache[<<myclass, cmd>>], cache |-> cache, scanned |-> FALSE]
    ELSE LET found == SearchCommandTupleIn(device, common, myclass, cmd)
         IN  [ret |-> found,
              cache |-> IF found = None THEN cache
                        ELSE (<<myclass, cmd>> :> found) @@ cache,
              scanned |-> TRUE]

get_command_tuple(cache, myclass, cmd) ==
    get_command_tuple_in(minidrone_commands, common_commands, cache, myclass, cmd)

\* every <<class, cmd, arg, enum member>> index of the enum arguments of a command
EnumIndexes(project, p) ==
    LET args == project.myclass[p[1]].cmd[p[2]].arg
    IN  UNION {{<<p[1], p[2], a, e>> : e \in 1..Len(args[a].enum)} :
                   a \in {x \in 1..Len(args) : args[x].type = "enum"}}

EnumMatches(project, myclass, cmd, enum_name) ==
    {q \in UNION {EnumIndexes(project, p) : p \in NameMatches(project, myclass, cmd)} :
        project.myclass[q[1]].cmd[q[2]].arg[q[3]].enum[q[4]] = enum_name}

SearchCommandTupleWithEnum(myclass, cmd, enum_name) ==
    LET inMini == EnumMatches(minidrone_commands, myclass, cmd, enum_name)
        inCommon == EnumMatches(common_commands, myclass, cmd, enum_name)
    IN  IF inMini # {}
        THEN [t |-> "tuple_enum", v |-> TupleAt(minidrone_commands, LexMin(inMini)),
              enum_id |-> LexMin(inMini)[4] - 1]
        ELSE IF inCommon # {}
        THEN [t |-> "tuple_enum", v |-> TupleAt(common_commands, LexMin(inCommon)),
              enum_id |-> LexMin(inCommon)[4] - 1]
        ELSE None

get_command_tuple_with_enum(cache, myclass, cmd, enum_name) ==
    IF <<myclass, cmd, enum_name>> \in DOMAIN cache
    THEN [ret |-> cache[<<myclass, cmd, enum_name>>], cache |-> cache, scanned |-> FALSE]
    ELSE LET found == SearchCommandTupleWithEnum(myclass, cmd, enum_name)
         IN  [ret |-> found,
              cache |-> IF found = None THEN cache
                        ELSE (<<myclass, cmd, enum_name>> :> found) @@ cache,
              scanned |-> TRUE]

(***************************************************************************)
(* Mambo._parse_sensor_tuple: ids of an inbound header -> sensor names and *)
(* data sizes.  A sensor name is cmd name + "_" + arg name, kept here as   *)
(* the pair <<cmd name, arg name>>; a command without arguments gives the  *)
(* one name <<cmd name>> with data size None.                              *)
(***************************************************************************)
IdMatches(project, myclass_id, cmd_id) ==
    {p \in CmdIndexes(project) :
        /\ project.myclass[p[1]].id = myclass_id
        /\ project.myclass[p[1]].cmd[p[2]].id = cmd_id}

SensorNames(c) ==
    IF Len(c.arg) > 0
    THEN [a \in 1..Len(c.arg) |-> <<c.name, c.arg[a].name>>]
    ELSE <<(<<c.name>>)>>

SensorSizes(c) ==
    IF Len(c.arg) > 0 THEN [a \in 1..Len(c.arg) |-> c.arg[a].type] ELSE <<"None">>

\* the enum member lists the search adds to the cache under (sensor name, "enum")
SensorEnums(c) ==
    [k \in {<<(<<c.name, c.arg[a].name>>), "enum">> :
                a \in {x \in 1..Len(c.arg) : c.arg[x].type = "enum"}} |->
        LET a == CHOOSE x \in 1..Len(c.arg) : c.arg[x].type = "enum" /\ c.arg[x].name = k[1][2]
        IN  c.arg[a].enum]

\* a cache entry is the pair (names, sizes); found is FALSE for (None, None)
FoundSensor(cache, key, c) ==
    LET entry == [found |-> TRUE, names |-> SensorNames(c), sizes |-> SensorSizes(c)]
    IN  [found |-> TRUE, names |-> entry.names, sizes |-> entry.sizes,
         cache |-> (key :> entry) @@ SensorEnums(c) @@ cache]

\* a miss kept as one byte under a name of its own
NotFoundSensorStored == [found |-> TRUE, names |-> <<(<<"unknown">>)>>, sizes |-> <<"u8">>]

NotFoundSensor == [found |-> FALSE, names |-> <<>>, sizes |-> <<>>]

\* _parse_sensor_tuple of a Mambo whose dictionaries are device and common
parse_sensor_tuple_in(device, common, cache, sensor_tuple) ==
    LET project_id == sensor_tuple[3]
        myclass_id == sensor_tuple[4]
        cmd_id == sensor_tuple[5]
        key == <<sensor_tuple[3], sensor_tuple[4], sensor_tuple[5], sensor_tuple[6]>>
        inMini == IdMatches(device, myclass_id, cmd_id)
        inCommon == IdMatches(common, myclass_id, cmd_id)
        at(project, p) == project.myclass[p[1]].cmd[p[2]]
    IN  IF key \in DOMAIN cache
        THEN [found |-> cache[key].found, names |-> cache[key].names,
              sizes |-> cache[key].sizes, cache |-> cache]
        ELSE IF project_id = device.id /\ inMini # {}
        THEN FoundSensor(cache, key, at(device, LexMin(inMini)))
        ELSE IF project_id = common.id /\ inCommon # {}
        THEN FoundSensor(cache, key, at(common, LexMin(inCommon)))
        ELSE [found |-> NotFoundSensor.found, names |-> NotFoundSensor.names,
              sizes |-> NotFoundSensor.sizes, cache |-> (key :> NotFoundSensor) @@ cache]

parse_sensor_tuple(cache, sensor_tuple) ==
    parse_sensor_tuple_in(minidrone_commands, common_commands, cache, sensor_tuple)

(***************************************************************************)
(* MamboSensors: the last known sensor values.                             *)
(***************************************************************************)
InitSensors ==
    [battery |-> PyInt(100), flying_state |-> PyStr("landed"),
     unknown_sensors |-> <<>>,
     gun_id |-> PyInt(0), gun_state |-> None,
     claw_id |-> PyInt(0), claw_state |-> None,
     speed_x |-> PyInt(0), speed_y |-> PyInt(0), speed_z |-> PyInt(0), speed_ts |-> PyInt(0),
     altitude |-> PyInt(0), altitude_ts |-> PyInt(0),
     quaternion_w |-> PyInt(0), quaternion_x |-> PyInt(0), quaternion_y |-> PyInt(0),
     quaternion_z |-> PyInt(0), quaternion_ts |-> PyInt(0)]

\* the battery and the flying state in each other's field
SensorFieldSwapped(name) ==
    CASE name = <<"BatteryStateChanged", "battery_percent">> -> "flying_state"
      [] name = <<"FlyingStateChanged", "state">> -> "battery"
      [] OTHER -> ""

\* the field MamboSensors.update stores a sensor name in ("" for the unknown dict)
SensorField(name) ==
    CASE name = <<"BatteryStateChanged", "battery_percent">> -> "battery"
      [] name = <<"FlyingStateChanged", "state">> -> "flying_state"
      [] name = <<"ClawState", "id">> -> "claw_id"
      [] name = <<"ClawState", "state">> -> "claw_state"
      [] name = <<"GunState", "id">> -> "gun_id"
      [] name = <<"GunState", "state">> -> "gun_state"
      [] name = <<"DroneSpeed", "speed_x">> -> "speed_x"
      [] name = <<"DroneSpeed", "speed_y">> -> "speed_y"
      [] name = <<"DroneSpeed", "speed_z">> -> "speed_z"
      [] name = <<"DroneSpeed", "ts">> -> "speed_ts"
      [] name = <<"DroneAltitude", "altitude">> -> "altitude"
      [] name = <<"DroneAltitude", "altitude_ts">> -> "altitude_ts"
      [] name = <<"DroneQuaternion", "q_w">> -> "quaternion_w"
      [] name = <<"DroneQuaternion", "q_x">> -> "quaternion_x"
      [] name = <<"DroneQuaternion", "q_y">> -> "quaternion_y"
      [] name = <<"DroneQuaternion", "q_z">> -> "quaternion_z"
      [] name = <<"DroneQuaternion", "tz">> -> "quaternion_ts"
      [] OTHER -> ""

\* the enum translation at the head of MamboSensors.update: [exc, v]
EnumValue(name, value, sensor_enum) ==
    IF <<name, "enum">> \notin DOMAIN sensor_enum THEN [exc |-> "", v |-> value]
    ELSE IF value.t # "int" THEN [exc |-> "TypeError", v |-> value]
    ELSE IF value.v > Len(sensor_enum[<<name, "enum">>])
         THEN [exc |-> "", v |-> PyStr("UNKNOWN_ENUM_VALUE")]
    ELSE IF value.v + 1 \in 1..Len(sensor_enum[<<name, "enum">>])
         THEN [exc |-> "", v |-> PyStr(sensor_enum[<<name, "enum">>][value.v + 1])]
    ELSE [exc |-> "IndexError", v |-> value]

\* MamboSensors.update: [exc, sensors]
SensorsUpdate(s, name, value, sensor_enum) ==
    LET ev == EnumValue(name, value, sensor_enum)
        f == SensorField(name)
    IN  IF ev.exc # "" THEN [exc |-> ev.exc, sensors |-> s]
        ELSE IF f = ""
        THEN [exc |-> "",
              sensors |-> [s EXCEPT !.unknown_sensors = (name :> ev.v) @@ s.unknown_sensors]]
        ELSE [exc |-> "", sensors |-> [s EXCEPT ![f] = ev.v]]

(***************************************************************************)
(* Mambo._update_sensors up to its call of _ack_packet: the header, the    *)
(* lookup, and the loop over the declared names, each decoded at offset 6. *)
(* [exc, sensors, cache]; an exception leaves what was done before it.     *)
(***************************************************************************)
RECURSIVE UpdateLoop(_, _, _, _, _, _)
UpdateLoop(s, cache, data, names, sizes, idx) ==
    IF idx > Len(names) THEN [exc |-> "", sensors |-> s, cache |-> cache]
    ELSE LET got == UnpackSensor(data, sizes[idx])
             upd == SensorsUpdate(s, names[idx], got.v, cache)
         IN  IF got.exc # "" THEN [exc |-> got.exc, sensors |-> s, cache |-> cache]
             ELSE IF upd.exc # "" THEN [exc |-> upd.exc, sensors |-> s, cache |-> cache]
             ELSE UpdateLoop(upd.sensors, cache, data, names, sizes, idx + 1)

update_sensors(s, cache, data) ==
    IF Len(data) < 6 THEN [exc |-> "struct.error", sensors |-> s, cache |-> cache]
    ELSE LET parsed == parse_sensor_tuple(cache, UnpackHeader(data))
         IN  IF ~parsed.found
             THEN [exc |-> "", sensors |-> s, cache |-> parsed.cache]
             ELSE UpdateLoop(s, parsed.cache, data, parsed.names, parsed.sizes, 1)

(***************************************************************************)
(* The state.                                                              *)
(***************************************************************************)
VARIABLES
    \* the Python call stack: frames of Mambo.py's functions, the running one last
    stack,
    \* the public call in progress, and how the last one ended
    op, outcome,
    \* the radio link ("up", "down") and the characteristics whose
    \* notification descriptor holds the subscribe value on this link
    link, subscribed,
    \* Mambo's tables of found characteristics: name (or uuid bytes) -> characteristic
    receive_characteristics, send_characteristics, ftp_characteristics,
    handshake_characteristics,
    \* the MamboDelegate given to setDelegate: [set, handle_map]
    delegate,
    characteristic_send_counter, command_received, sensors,
    sensor_tuple_cache, command_tuple_cache,
    \* sequence bytes of SEND_WITH_ACK frames the drone got and has an ack under way for
    droneAcks,
    \* what the transport saw: per send channel the last frame written and the
    \* number of the command it was built for
    wire,
    \* per send channel, how many commands were issued on it so far
    issued,
    \* the running (or last) send-with-ack cycle, for the claims about it
    cyc,
    \* the running (or last) dispatch of a notification, for the claims about it
    disp,
    \* handshake writes done since the link last came up
    hsWrites,
    \* counters that bound the run
    nOps, nNotes, nDrops, nConnects

vars ==
    <<stack, op, outcome, link, subscribed, receive_characteristics, send_characteristics,
      ftp_characteristics, handshake_characteristics, delegate, characteristic_send_counter,
      command_received, sensors, sensor_tuple_cache, command_tuple_cache, droneAcks, wire,
      issued, cyc, disp, hsWrites, nOps, nNotes, nDrops, nConnects>>

\* the variables of Mambo's discovery tables
tables ==
    <<receive_characteristics, send_characteristics, ftp_characteristics,
      handshake_characteristics>>

\* the variables only notification dispatch and command building touch
protocol ==
    <<characteristic_send_counter, command_received, sensors, sensor_tuple_cache,
      command_tuple_cache>>

bounds == <<nOps, nNotes, nDrops, nConnects>>

NoFrame == [packet |-> <<>>, cmd |-> 0]

\* active: the cycle runs; cmd, seq: its command number and sequence byte;
\* writes: frames written; acks: ACK_COMMAND_SENT notifications delivered during
\* it; ackAt: writes done when the first of them came; ownAck: one of them named
\* seq; writesAfterAck: writes after the first; linkErr: a transport call raised
\* during it; raised: an exception ended it; ret: what it returned
InitCyc ==
    [active |-> FALSE, cmd |-> 0, seq |-> 0, writes |-> 0, acks |-> 0, ackAt |-> 0,
     ownAck |-> FALSE, linkErr |-> FALSE, writesAfterAck |-> 0, raised |-> FALSE,
     ret |-> ""]

\* state: none, running, returned or raised; handle, data: the notification;
\* acks: the frames it wrote on ACK_COMMAND; tick: flips at every dispatch;
\* idle: no send-with-ack cycle was running when it began
InitDisp ==
    [state |-> "none", handle |-> <<>>, data |-> <<>>, acks |-> <<>>, tick |-> FALSE,
     idle |-> TRUE]

Init ==
    /\ stack = <<>>
    /\ op = "__init__"
    /\ outcome = [op |-> "__init__", ret |-> "None", exc |-> ""]
    /\ link = "down"
    /\ subscribed = {}
    /\ receive_characteristics = <<>>
    /\ send_characteristics = <<>>
    /\ ftp_characteristics = <<>>
    /\ handshake_characteristics = <<>>
    /\ delegate = [set |-> FALSE, handle_map |-> <<>>]
    /\ characteristic_send_counter = InitCounters
    /\ command_received = InitReceived
    /\ sensors = InitSensors
    /\ sensor_tuple_cache = <<>>
    /\ command_tuple_cache = <<>>
    /\ droneAcks = {}
    /\ wire = [c \in Range(characteristic_send_uuids) |-> NoFrame]
    /\ issued = [c \in Range(characteristic_send_uuids) |-> 0]
    /\ cyc = InitCyc
    /\ disp = InitDisp
    /\ hsWrites = 0
    /\ nOps = 0
    /\ nNotes = 0
    /\ nDrops = 0
    /\ nConnects = 0

(***************************************************************************)
(* Frames, returns and exceptions.                                         *)
(***************************************************************************)
Running(fn, pc) == Len(stack) > 0 /\ Top(stack).fn = fn /\ Top(stack).pc = pc

SetTop(stk, f) == Append(Pop(stk), f)

\* tries: the calls of self.drone.connect made so far
ReconnectFrame(num_retries) ==
    [fn |-> "_reconnect", pc |-> "loop", try_num |-> 1, success |-> FALSE,
     num_retries |-> num_retries, tries |-> 0]

\* cmd: the number of the command the packet was built for; after: what the last
\* _reconnect(3) of the handler returned ("" before any)
SafeWriteFrame(channel, packet, cmd) ==
    [fn |-> "_safe_ble_write", pc |-> "try", channel |-> channel, packet |-> packet,
     cmd |-> cmd, after |-> ""]

\* the stack once _reconnect has returned ok to the frame on top of stk
AfterReconnect(stk, ok) ==
    IF Len(stk) > 0 /\ Top(stk).fn = "_safe_ble_write"
    THEN SetTop(stk, [Top(stk) EXCEPT !.after = IF ok THEN "succeeded" ELSE "failed"])
    ELSE stk

SleepFrame == [fn |-> "smart_sleep", pc |-> "wait"]

\* The stack once an exception raised in the top frame has found its handler:
\* smart_sleep's bare except around waitForNotifications, _safe_ble_write's and
\* connect's except BTLEException; each handler's first act is included.  Empty
\* when nothing catches it.
RECURSIVE Unwind(_, _)
Unwind(stk, exc) ==
    IF Len(stk) = 0 THEN <<>>
    ELSE LET f == Top(stk)
         IN  IF f.fn = "smart_sleep" /\ f.pc = "wait"
             THEN Append(SetTop(stk, [f EXCEPT !.pc = "handler"]), ReconnectFrame(3))
             ELSE IF f.fn = "_safe_ble_write" /\ f.pc = "try" /\ exc = "BTLEException"
             THEN Append(SetTop(stk, [f EXCEPT !.pc = "handler"]), ReconnectFrame(3))
             ELSE IF f.fn = "connect" /\ f.pc = "try" /\ exc = "BTLEException"
             THEN SetTop(stk, [f EXCEPT !.pc = "loop", !.try_num = f.try_num + 1])
             ELSE Unwind(Pop(stk), exc)

\* The stack once the callee above the top frame of stk has returned: the caller
\* goes on to its next statement that does something.
RECURSIVE Resume(_)
Resume(stk) ==
    IF Len(stk) = 0 THEN <<>>
    ELSE LET f == Top(stk)
         IN  CASE f.fn = "_send_command_packet_ack" /\ f.pc = "write" ->
                    Append(SetTop(stk, [f EXCEPT !.pc = "sleep", !.try_num = f.try_num + 1]),
                           SleepFrame)
               [] f.fn = "_send_command_packet_ack" /\ f.pc = "sleep" ->
                    SetTop(stk, [f EXCEPT !.pc = "loop"])
               [] f.fn = "_safe_ble_write" /\ f.pc = "handler" ->
                    SetTop(stk, [f EXCEPT !.pc = "try"])
               [] f.fn = "smart_sleep" /\ f.pc = "handler" ->
                    SetTop(stk, [f EXCEPT !.pc = "wait"])
               [] f.fn = "handleNotification" -> Resume(Pop(stk))
               [] f.fn = "fly_direct" /\ f.pc = "write" ->
                    SetTop(stk, [f EXCEPT !.pc = "wait"])
               [] f.fn = "fly_direct" /\ f.pc = "wait" ->
                    SetTop(stk, [f EXCEPT !.pc = "loop"])
               [] f.fn = "connect" /\ f.pc = "try" -> Pop(stk)
               [] f.fn = "safe_takeoff" /\ f.pc = "first_sleep" ->
                    SetTop(stk, [f EXCEPT !.pc = "takeoff"])
               [] f.fn = "safe_takeoff" /\ f.pc = "takeoff" ->
                    SetTop(stk, [f EXCEPT !.pc = "first"])
               [] f.fn = "safe_takeoff" /\ f.pc = "second_sleep" ->
                    SetTop(stk, [f EXCEPT !.pc = "second"])
               [] OTHER -> stk

\* how a public call that ended with the stack stk' shows to the caller
Ended(stk, ret, exc) ==
    IF Len(stk) = 0 THEN [op |-> op, ret |-> ret, exc |-> exc] ELSE outcome

HasFrame(stk, fn) == \E i \in 1..Len(stk) : stk[i].fn = fn

\* the cycle record once the stack is stk2: the cycle is over when its frame is gone
CycAfter(c, stk2, byExc) ==
    IF c.active /\ ~HasFrame(stk2, "_send_command_packet_ack")
    THEN [c EXCEPT !.active = FALSE, !.raised = byExc]
    ELSE c

\* the dispatch record once the stack is stk2
DispAfter(d, stk2, byExc) ==
    IF d.state = "running" /\ ~HasFrame(stk2, "handleNotification")
    THEN [d EXCEPT !.state = IF byExc THEN "raised" ELSE "returned"]
    ELSE d

\* a transport call of the top frame raised BTLEException
LinkError ==
    /\ stack' = Unwind(stack, "BTLEException")
    /\ outcome' = Ended(stack', "raised", "BTLEException")
    /\ cyc' = CycAfter([cyc EXCEPT !.linkErr = cyc.active \/ cyc.linkErr], stack', TRUE)
    /\ disp' = DispAfter(disp, stack', TRUE)

(***************************************************************************)
(* Mambo.connect, Mambo._connect, Mambo._perform_handshake.                *)
(***************************************************************************)
TableOf(visible, services, uuids) ==
    LET S == {c \in visible : service_uuids[ServiceOf(c)] \in services /\ c[2] \in DOMAIN uuids}
    IN  [n \in {uuids[c[2]] : c \in S} |-> CHOOSE c \in S : uuids[c[2]] = n]

HandleMapOf(visible) ==
    [c \in {x \in visible : /\ service_uuids[ServiceOf(x)] = "ARCOMMAND_RECEIVING_SERVICE"
                            /\ x[2] \in DOMAIN characteristic_receive_uuids} |-> c[2]]

\* the test of the handshake count alone
allServicesFoundByCount(recv, send, ftp, hs) ==
    Cardinality(DOMAIN hs) = HandshakeCount

\* the test at the end of the while loop of _connect
allServicesFound(recv, send, ftp, hs) ==
    /\ \A r_id \in Range(characteristic_receive_uuids) : r_id \in DOMAIN recv
    /\ \A s_id \in Range(characteristic_send_uuids) : s_id \in DOMAIN send
    /\ \A f_id \in Range(characteristic_ftp_uuids) : f_id \in DOMAIN ftp
    /\ Cardinality(DOMAIN hs) = HandshakeCount

\* the caller calls connect(num_retries=3), as demoTricks.py does
CallConnect ==
    /\ Len(stack) = 0
    /\ ~delegate.set
    /\ nConnects < MaxConnects
    /\ nConnects' = nConnects + 1
    /\ op' = "connect"
    /\ stack' = <<[fn |-> "connect", pc |-> "loop", try_num |-> 1, num_retries |-> 3,
                   tries |-> 0]>>
    /\ UNCHANGED <<outcome, link, subscribed, tables, delegate, protocol, droneAcks, wire,
                   issued, cyc, disp, hsWrites, nOps, nNotes, nDrops>>

\* connect: the while test; _connect is called or False returned
ConnectLoop ==
    /\ Running("connect", "loop")
    /\ LET f == Top(stack)
       IN  IF f.try_num < f.num_retries
           THEN /\ stack' = Append(SetTop(stack, [f EXCEPT !.pc = "try",
                                                            !.tries = f.tries + 1]),
                                   [fn |-> "_connect", pc |-> "link", handle_map |-> <<>>,
                                    scans |-> 0])
                /\ outcome' = outcome
           ELSE /\ stack' = Pop(stack)
                /\ outcome' = [op |-> op, ret |-> "False", exc |-> ""]
    /\ UNCHANGED <<op, link, subscribed, tables, delegate, protocol, droneAcks, wire, issued,
                   cyc, disp, hsWrites, bounds>>

\* _connect: self.drone.connect(address, "random") brings the link up or raises
ConnectLink ==
    /\ Running("_connect", "link")
    /\ \/ /\ link' = "up"
          /\ subscribed' = {}
          /\ hsWrites' = 0
          /\ stack' = SetTop(stack, [Top(stack) EXCEPT !.pc = "scan"])
          /\ UNCHANGED <<outcome, cyc, disp>>
       \/ /\ link = "down"
          /\ LinkError
          /\ UNCHANGED <<link, subscribed, hsWrites>>
    /\ UNCHANGED <<op, tables, delegate, protocol, droneAcks, wire, issued, bounds>>

\* _connect: one round of the while loop, getServices to the allServicesFound test;
\* scans counts the rounds up to maxScans when counting, and else only tells one
\* round from the next
ConnectScan(maxScans, counting) ==
    /\ Running("_connect", "scan")
    /\ \/ /\ link = "down"
          /\ LinkError
          /\ UNCHANGED tables
       \/ /\ link = "up"
          /\ counting => Top(stack).scans < maxScans
          /\ \E visible \in ScanResults :
                LET f == Top(stack)
                    recv == TableOf(visible, {"ARCOMMAND_RECEIVING_SERVICE"},
                                    characteristic_receive_uuids) @@ receive_characteristics
                    send == TableOf(visible, {"ARCOMMAND_SENDING_SERVICE"},
                                    characteristic_send_uuids) @@ send_characteristics
                    ftp == TableOf(visible, {"UPDATE_BLE_FTP", "NORMAL_BLE_FTP_SERVICE"},
                                   characteristic_ftp_uuids) @@ ftp_characteristics
                    hs == [k \in visible \cap HandshakeList |-> k] @@ handshake_characteristics
                    hm == HandleMapOf(visible) @@ f.handle_map
                IN  /\ receive_characteristics' = recv
                    /\ send_characteristics' = send
                    /\ ftp_characteristics' = ftp
                    /\ handshake_characteristics' = hs
                    /\ stack' = SetTop(stack,
                            [f EXCEPT !.handle_map = hm,
                                      !.scans = IF counting THEN f.scans + 1
                                                ELSE 1 - (f.scans % 2),
                                      !.pc = IF allServicesFound(recv, send, ftp, hs)
                                             THEN "handshake" ELSE "scan"])
          /\ UNCHANGED <<outcome, cyc, disp>>
    /\ UNCHANGED <<op, link, subscribed, delegate, protocol, droneAcks, wire, issued, hsWrites,
                   bounds>>

\* the subscribe value written to the receive characteristics only
perform_handshake_receive_only ==
    /\ link = "up"
    /\ subscribed' = subscribed \cup {<<"fb", h>> : h \in DOMAIN characteristic_receive_uuids}
    /\ hsWrites' = Cardinality(DOMAIN characteristic_receive_uuids)

\* _perform_handshake: the subscribe value written to every handshake
\* characteristic; the first write raises when the link is down
perform_handshake_ok ==
    /\ link = "up"
    /\ subscribed' = subscribed \cup DOMAIN handshake_characteristics
    /\ hsWrites' = Cardinality(DOMAIN handshake_characteristics)

\* _connect: the handshake and setDelegate; connect then returns True
ConnectHandshake ==
    /\ Running("_connect", "handshake")
    /\ \/ /\ perform_handshake_ok
          /\ delegate' = [set |-> TRUE, handle_map |-> Top(stack).handle_map]
          /\ stack' = <<>>
          /\ outcome' = [op |-> op, ret |-> "True", exc |-> ""]
          /\ UNCHANGED <<cyc, disp>>
       \/ /\ link = "down"
          /\ LinkError
          /\ UNCHANGED <<subscribed, hsWrites, delegate>>
    /\ UNCHANGED <<op, link, tables, protocol, droneAcks, wire, issued, bounds>>

(***************************************************************************)
(* The commands: the counter increment, the frame, the send-with-ack cycle.*)
(***************************************************************************)
\* Inc without the wrap at 256
IncNoWrap(counters, channel) ==
    [counters EXCEPT ![channel] = counters[channel] + 1]

\* Inc that computes the next value and does not store it
IncNotStored(counters, channel) == counters

\* the increment every frame builder does before it packs the counter
Inc(counters, channel) ==
    [counters EXCEPT ![channel] = (counters[channel] + 1) % CounterWrap]

\* Header packing the value the counter had before its increment
HeaderStale(type, counters, channel, command_tuple) ==
    <<type, (counters[channel] + CounterWrap - 1) % CounterWrap, command_tuple[1],
      command_tuple[2], command_tuple[3], 0>>

\* the six header bytes every outbound data frame starts with
Header(type, counters, channel, command_tuple) ==
    <<type, counters[channel], command_tuple[1], command_tuple[2], command_tuple[3], 0>>

\* the class and the command bytes the other way round
NoparamPacketSwapped(counters, command_tuple) ==
    <<data_types.DATA_WITH_ACK, counters["SEND_WITH_ACK"], command_tuple[1],
      command_tuple[3], command_tuple[2], 0>>

\* _send_noparam_command_packet_ack: struct.pack("<BBBBBB", ...)
NoparamPacket(counters, command_tuple) ==
    Header(data_types.DATA_WITH_ACK, counters, "SEND_WITH_ACK", command_tuple)

\* _send_enum_command_packet_ack without usb_id: struct.pack("<BBBBBBI", ...)
EnumPacket(counters, command_tuple, enum_value) ==
    Header(data_types.DATA_WITH_ACK, counters, "SEND_WITH_ACK", command_tuple)
        \o PackI(enum_value)

\* turn_degrees: struct.pack("<BBBBBBh", ...)
TurnPacket(counters, command_tuple, degrees) ==
    Header(data_types.DATA_WITH_ACK, counters, "SEND_WITH_ACK", command_tuple)
        \o Packh(degrees)

\* a value passed on as it came
ensure_fly_command_unclipped(value) == value

\* _ensure_fly_command_in_range
ensure_fly_command_in_range(value) ==
    IF value < -100 THEN -100 ELSE IF value > 100 THEN 100 ELSE value

\* the movement frame built as a frame of the acknowledged channel
PcmdPacketWithAck(counters, command_tuple, my_roll, my_pitch, my_yaw, my_vertical) ==
    Header(data_types.DATA_WITH_ACK, counters, "SEND_WITH_ACK", command_tuple)
        \o PackB(1) \o Packb(my_roll) \o Packb(my_pitch) \o Packb(my_yaw)
        \o Packb(my_vertical) \o PackI(0)

\* fly_direct: struct.pack("<BBBBBBBbbbbI", ...)
PcmdPacket(counters, command_tuple, my_roll, my_pitch, my_yaw, my_vertical) ==
    Header(data_types.DATA_NO_ACK, counters, "SEND_NO_ACK", command_tuple)
        \o PackB(1) \o Packb(my_roll) \o Packb(my_pitch) \o Packb(my_yaw)
        \o Packb(my_vertical) \o PackI(0)

\* _ack_packet: struct.pack("<BBB", ...)
AckPacket(counters, packet_id) ==
    <<data_types.ACK, counters["ACK_COMMAND"], packet_id>>

\* one flag for every channel
set_command_received_all(received, channel, val) == [c \in DOMAIN received |-> val]

\* _set_command_received
set_command_received(received, channel, val) == [received EXCEPT ![channel] = val]

\* the names the parameterless public commands look up
NoparamNames ==
    [takeoff |-> <<"Piloting", "TakeOff">>, land |-> <<"Piloting", "Landing">>,
     hover |-> <<"Piloting", "FlatTrim">>, take_picture |-> <<"MediaRecord", "PictureV2">>,
     ask_for_state_update |-> <<"Common", "AllStates">>]

\* the calls the modelled caller makes
NoparamCalls == {"takeoff", "take_picture"}

FlipCalls == {"left", "sideways"}

TurnCalls == {-90}

FlyCalls == {150}

\* the caller may make its next call, of at most maxOps
CanCall(maxOps) == Len(stack) = 0 /\ delegate.set /\ nOps < maxOps

\* a public call ended at once with an exception
RaiseAtCall(name, exc) ==
    /\ stack' = <<>>
    /\ outcome' = [op |-> name, ret |-> "raised", exc |-> exc]
    /\ UNCHANGED <<command_received, cyc>>

\* _send_command_packet_ack starting with the flag as it finds it
BeginCycleFlagKept(packet) ==
    /\ stack' = Append(stack, [fn |-> "_send_command_packet_ack", pc |-> "loop",
                               try_num |-> 0, packet |-> packet,
                               cmd |-> issued'["SEND_WITH_ACK"]])
    /\ command_received' = command_received
    /\ cyc' = [InitCyc EXCEPT !.active = TRUE, !.cmd = issued'["SEND_WITH_ACK"],
                              !.seq = packet[2]]
    /\ outcome' = outcome

\* _send_command_packet_ack up to its while loop: try_num = 0, the flag cleared
BeginCycle(packet) ==
    /\ stack' = Append(stack, [fn |-> "_send_command_packet_ack", pc |-> "loop",
                               try_num |-> 0, packet |-> packet,
                               cmd |-> issued'["SEND_WITH_ACK"]])
    /\ command_received' = set_command_received(command_received, "SEND_WITH_ACK", FALSE)
    /\ cyc' = [InitCyc EXCEPT !.active = TRUE, !.cmd = issued'["SEND_WITH_ACK"],
                              !.seq = packet[2]]
    /\ outcome' = outcome

\* takeoff, land, hover, take_picture, ask_for_state_update:
\* _get_command_tuple, then _send_noparam_command_packet_ack
CallNoparam(name, maxOps) ==
    /\ CanCall(maxOps)
    /\ LET r == get_command_tuple(command_tuple_cache, NoparamNames[name][1],
                                  NoparamNames[name][2])
           counters == Inc(characteristic_send_counter, "SEND_WITH_ACK")
       IN  /\ command_tuple_cache' = r.cache
           /\ characteristic_send_counter' = counters
           /\ issued' = [issued EXCEPT !["SEND_WITH_ACK"] = @ + 1]
           /\ IF r.ret = None
              THEN RaiseAtCall(name, "TypeError")
              ELSE BeginCycle(NoparamPacket(counters, r.ret.v))
    /\ op' = name
    /\ nOps' = nOps + 1
    /\ UNCHANGED <<link, subscribed, hsWrites, tables, delegate, sensors, sensor_tuple_cache,
                   droneAcks, wire, disp, nNotes, nDrops, nConnects>>

\* turn_degrees keeping the angle it sent among the sensors
CallTurnDegreesStoring(degrees) ==
    /\ CanCall(MaxOps)
    /\ LET r == get_command_tuple(command_tuple_cache, "Animations", "Cap")
           counters == Inc(characteristic_send_counter, "SEND_WITH_ACK")
       IN  /\ command_tuple_cache' = r.cache
           /\ characteristic_send_counter' = counters
           /\ issued' = [issued EXCEPT !["SEND_WITH_ACK"] = @ + 1]
           /\ IF r.ret = None
              THEN RaiseAtCall("turn_degrees", "TypeError")
              ELSE BeginCycle(TurnPacket(counters, r.ret.v, degrees))
    /\ op' = "turn_degrees"
    /\ nOps' = nOps + 1
    /\ sensors' = [sensors EXCEPT !.unknown_sensors =
                      (<<"Cap", "offset">> :> PyInt(degrees)) @@ @]
    /\ UNCHANGED <<link, subscribed, hsWrites, tables, delegate, sensor_tuple_cache,
                   droneAcks, wire, disp, nNotes, nDrops, nConnects>>

\* turn_degrees
CallTurnDegrees(degrees) ==
    /\ CanCall(MaxOps)
    /\ LET r == get_command_tuple(command_tuple_cache, "Animations", "Cap")
           counters == Inc(characteristic_send_counter, "SEND_WITH_ACK")
       IN  /\ command_tuple_cache' = r.cache
           /\ characteristic_send_counter' = counters
           /\ issued' = [issued EXCEPT !["SEND_WITH_ACK"] = @ + 1]
           /\ IF r.ret = None
              THEN RaiseAtCall("turn_degrees", "TypeError")
              ELSE BeginCycle(TurnPacket(counters, r.ret.v, degrees))
    /\ op' = "turn_degrees"
    /\ nOps' = nOps + 1
    /\ UNCHANGED <<link, subscribed, hsWrites, tables, delegate, sensors, sensor_tuple_cache,
                   droneAcks, wire, disp, nNotes, nDrops, nConnects>>

\* flip: the direction test (its print, "...%s...%s" % direction, raises
\* TypeError), _get_command_tuple_with_enum, then _send_enum_command_packet_ack
CallFlip(direction) ==
    /\ CanCall(MaxOps)
    /\ LET r == get_command_tuple_with_enum(command_tuple_cache, "Animations", "Flip",
                                            direction)
           counters == Inc(characteristic_send_counter, "SEND_WITH_ACK")
       IN  IF direction \notin {"front", "back", "right", "left"}
           THEN /\ RaiseAtCall("flip", "TypeError")
                /\ UNCHANGED <<command_tuple_cache, characteristic_send_counter, issued>>
           ELSE IF r.ret = None
           THEN /\ RaiseAtCall("flip", "TypeError")
                /\ command_tuple_cache' = r.cache
                /\ issued' = [issued EXCEPT !["SEND_WITH_ACK"] = @ + 1]
                /\ UNCHANGED characteristic_send_counter
           ELSE /\ command_tuple_cache' = r.cache
                /\ characteristic_send_counter' = counters
                /\ issued' = [issued EXCEPT !["SEND_WITH_ACK"] = @ + 1]
                /\ BeginCycle(EnumPacket(counters, r.ret.v, r.ret.enum_id))
    /\ op' = "flip"
    /\ nOps' = nOps + 1
    /\ UNCHANGED <<link, subscribed, hsWrites, tables, delegate, sensors, sensor_tuple_cache,
                   droneAcks, wire, disp, nNotes, nDrops, nConnects>>

\* the while test counting from 1, as connect's does
CycleContinuesFromOne(try_num, received) ==
    try_num + 1 < max_packet_retries /\ ~received["SEND_WITH_ACK"]

\* the while test without the flag
CycleContinuesDeaf(try_num, received) == try_num < max_packet_retries

\* the while test of _send_command_packet_ack
CycleContinues(try_num, received) ==
    try_num < max_packet_retries /\ ~received["SEND_WITH_ACK"]

\* _send_command_packet_ack: the while test; the frame is written or the flag returned
CycleLoop ==
    /\ Running("_send_command_packet_ack", "loop")
    /\ LET f == Top(stack)
       IN  IF CycleContinues(f.try_num, command_received)
           THEN /\ stack' = Append(SetTop(stack, [f EXCEPT !.pc = "write"]),
                                   SafeWriteFrame("SEND_WITH_ACK", f.packet, f.cmd))
                /\ UNCHANGED <<outcome, cyc>>
           ELSE LET ret == IF command_received["SEND_WITH_ACK"] THEN "True" ELSE "False"
                IN  /\ stack' = Resume(Pop(stack))
                    /\ outcome' = Ended(stack', ret, "")
                    /\ cyc' = [cyc EXCEPT !.active = FALSE, !.ret = ret]
    /\ UNCHANGED <<op, link, subscribed, hsWrites, tables, delegate, protocol, droneAcks,
                   wire, issued, disp, bounds>>

(***************************************************************************)
(* Mambo._safe_ble_write and Mambo._reconnect.                             *)
(***************************************************************************)
\* _safe_ble_write: characteristic.write(packet) goes through or raises
SafeWrite ==
    /\ Running("_safe_ble_write", "try")
    /\ LET f == Top(stack)
       IN  \/ /\ link = "up"
              /\ stack' = Resume(Pop(stack))
              /\ wire' = [wire EXCEPT ![f.channel] = [packet |-> f.packet, cmd |-> f.cmd]]
              /\ droneAcks' = IF f.channel = "SEND_WITH_ACK"
                              THEN droneAcks \cup {f.packet[2]} ELSE droneAcks
              /\ cyc' = IF f.channel = "SEND_WITH_ACK"
                        THEN [cyc EXCEPT !.writes = @ + 1,
                                         !.writesAfterAck = IF cyc.acks > 0 THEN @ + 1 ELSE @]
                        ELSE cyc
              /\ disp' = DispAfter(IF f.channel = "ACK_COMMAND"
                                   THEN [disp EXCEPT !.acks = Append(@, f.packet)]
                                   ELSE disp, stack', FALSE)
              /\ outcome' = outcome
           \/ /\ link = "down"
              /\ LinkError
              /\ UNCHANGED <<wire, droneAcks>>
    /\ UNCHANGED <<op, link, subscribed, hsWrites, tables, delegate, protocol, issued, bounds>>

\* _reconnect: one round of the while loop, self.drone.connect(address, "random")
ReconnectTry ==
    /\ Running("_reconnect", "loop")
    /\ LET f == Top(stack)
       IN  /\ f.try_num < f.num_retries /\ ~f.success
           /\ \/ /\ link' = "up"
                 /\ stack' = SetTop(stack, [f EXCEPT !.success = TRUE,
                                                     !.tries = f.tries + 1])
                 /\ cyc' = cyc
              \/ /\ link' = "down"
                 /\ stack' = SetTop(stack, [f EXCEPT !.try_num = f.try_num + 1,
                                                     !.tries = f.tries + 1])
                 /\ cyc' = [cyc EXCEPT !.linkErr = cyc.active \/ cyc.linkErr]
    /\ subscribed' = {}
    /\ hsWrites' = 0
    /\ droneAcks' = IF link = "up" THEN {} ELSE droneAcks
    /\ UNCHANGED <<op, outcome, tables, delegate, protocol, wire, issued, disp, bounds>>

\* _reconnect going on without the handshake
ReconnectHandshakeSkipped == link = "up" /\ UNCHANGED <<subscribed, hsWrites>>

\* _reconnect: if (success): self._perform_handshake()
ReconnectHandshake == perform_handshake_ok

\* _reconnect after the loop: the handshake when connected, and the return
ReconnectFinish ==
    /\ Running("_reconnect", "loop")
    /\ LET f == Top(stack)
       IN  /\ ~(f.try_num < f.num_retries /\ ~f.success)
           /\ \/ /\ f.success
                 /\ ReconnectHandshake
                 /\ stack' = AfterReconnect(Resume(Pop(stack)), TRUE)
                 /\ UNCHANGED <<outcome, cyc, disp>>
              \/ /\ f.success
                 /\ link = "down"
                 /\ LinkError
                 /\ UNCHANGED <<subscribed, hsWrites>>
              \/ /\ ~f.success
                 /\ stack' = AfterReconnect(Resume(Pop(stack)), FALSE)
                 /\ UNCHANGED <<outcome, cyc, disp, subscribed, hsWrites>>
    /\ UNCHANGED <<op, link, tables, delegate, protocol, droneAcks, wire, issued, bounds>>

(***************************************************************************)
(* MamboDelegate.handleNotification, run by the transport inside           *)
(* waitForNotifications.                                                   *)
(***************************************************************************)
\* both ack channels setting the flag of SEND_WITH_ACK
AckedChannelShared(channel) == "SEND_WITH_ACK"

\* the send channel whose flag a notification on an ack channel sets
AckedChannel(channel) ==
    IF channel = "ACK_COMMAND_SENT" THEN "SEND_WITH_ACK" ELSE "SEND_HIGH_PRIORITY"

\* handleNotification up to the call of _ack_packet:
\* [exc, received, sensors, cache, ack], ack when _ack_packet is to be called
handleNotification(handle_map, received, s, cache, cHandle, data) ==
    IF cHandle \notin DOMAIN handle_map
    THEN [exc |-> "KeyError", received |-> received, sensors |-> s, cache |-> cache,
          ack |-> FALSE]
    ELSE LET channel == characteristic_receive_uuids[handle_map[cHandle]]
             upd == update_sensors(s, cache, data)
         IN  CASE channel = "ACK_DRONE_DATA" ->
                    [exc |-> upd.exc, received |-> received, sensors |-> upd.sensors,
                     cache |-> upd.cache, ack |-> upd.exc = ""]
               [] channel = "NO_ACK_DRONE_DATA" ->
                    [exc |-> upd.exc, received |-> received, sensors |-> upd.sensors,
                     cache |-> upd.cache, ack |-> FALSE]
               [] channel \in {"ACK_COMMAND_SENT", "ACK_HIGH_PRIORITY"} ->
                    [exc |-> "", sensors |-> s, cache |-> cache, ack |-> FALSE,
                     received |-> set_command_received(received, AckedChannel(channel), TRUE)]
               [] OTHER ->
                    [exc |-> "", received |-> received, sensors |-> s, cache |-> cache,
                     ack |-> FALSE]

\* what the drone may send of its own accord: [handle, data]
DroneNotes ==
    {[handle |-> <<"fb", "0e">>, data |-> <<4, 9, 0, 5, 1, 0, 80>>],
     [handle |-> <<"fb", "0f">>, data |-> <<2, 5, 2, 3, 1, 0, 1>>],
     [handle |-> <<"fb", "0e">>, data |-> <<4, 10, 2, 3, 1, 0, 4>>],
     [handle |-> <<"fb", "0e">>, data |-> <<4, 11, 2>>],
     [handle |-> <<"fb", "1c">>, data |-> <<1, 1, 1>>],
     [handle |-> <<"fd", "22">>, data |-> <<0>>]}

\* the drone's acks of the SEND_WITH_ACK frames it got, still under way
AckNotes == {[handle |-> <<"fb", "1b">>, data |-> <<1, s, s>>] : s \in droneAcks}

\* waitForNotifications hands one notification to the delegate; the drone sends
\* at most maxNotes of its own accord
Deliver(note, maxNotes) ==
    /\ link = "up"
    /\ delegate.set
    /\ note.handle \in subscribed
    /\ LET d == handleNotification(delegate.handle_map, command_received, sensors,
                                   sensor_tuple_cache, note.handle, note.data)
           counters == Inc(characteristic_send_counter, "ACK_COMMAND")
           record == [state |-> "running", handle |-> note.handle, data |-> note.data,
                      acks |-> <<>>, tick |-> ~disp.tick, idle |-> ~cyc.active]
           isAck == cyc.active /\ note.handle = <<"fb", "1b">>
           cyc1 == IF isAck
                   THEN [cyc EXCEPT !.acks = @ + 1,
                                    !.ackAt = IF cyc.acks = 0 THEN cyc.writes ELSE @,
                                    !.ownAck = @ \/ note.data[3] = cyc.seq]
                   ELSE cyc
       IN  /\ command_received' = d.received
           /\ sensors' = d.sensors
           /\ sensor_tuple_cache' = d.cache
           /\ IF d.exc # ""
              THEN /\ stack' = Unwind(stack, d.exc)
                   /\ outcome' = Ended(stack', "raised", d.exc)
                   /\ disp' = [record EXCEPT !.state = "raised"]
                   /\ cyc' = CycAfter(cyc1, stack', TRUE)
                   /\ UNCHANGED <<characteristic_send_counter, issued>>
              ELSE IF d.ack
              THEN /\ characteristic_send_counter' = counters
                   /\ issued' = [issued EXCEPT !["ACK_COMMAND"] = @ + 1]
                   /\ stack' = stack \o
                        <<[fn |-> "handleNotification", pc |-> "_ack_packet"],
                          SafeWriteFrame("ACK_COMMAND", AckPacket(counters, note.data[2]),
                                         issued'["ACK_COMMAND"])>>
                   /\ disp' = record
                   /\ cyc' = cyc1
                   /\ outcome' = outcome
              ELSE /\ stack' = Resume(Append(stack, [fn |-> "handleNotification",
                                                     pc |-> "return"]))
                   /\ disp' = [record EXCEPT !.state = "returned"]
                   /\ cyc' = cyc1
                   /\ outcome' = outcome
                   /\ UNCHANGED <<characteristic_send_counter, issued>>
    /\ \/ /\ note \in AckNotes
          /\ droneAcks' = droneAcks \ {note.data[3]}
          /\ nNotes' = nNotes
       \/ /\ note \notin AckNotes
          /\ nNotes < maxNotes
          /\ nNotes' = nNotes + 1
          /\ droneAcks' = droneAcks
    /\ UNCHANGED <<op, link, subscribed, hsWrites, tables, delegate, command_tuple_cache,
                   wire, nOps, nDrops, nConnects>>

(***************************************************************************)
(* Mambo.smart_sleep and Mambo.fly_direct.                                 *)
(***************************************************************************)
\* the caller calls smart_sleep
CallSmartSleep(maxOps) ==
    /\ CanCall(maxOps)
    /\ op' = "smart_sleep"
    /\ nOps' = nOps + 1
    /\ stack' = <<SleepFrame>>
    /\ UNCHANGED <<outcome, link, subscribed, hsWrites, tables, delegate, protocol,
                   droneAcks, wire, issued, cyc, disp, nNotes, nDrops, nConnects>>

\* smart_sleep: the timeout has passed at the while test
SleepReturn ==
    /\ Running("smart_sleep", "wait")
    /\ stack' = Resume(Pop(stack))
    /\ outcome' = Ended(stack', "None", "")
    /\ UNCHANGED <<op, link, subscribed, hsWrites, tables, delegate, protocol, droneAcks,
                   wire, issued, cyc, disp, bounds>>

\* smart_sleep: waitForNotifications(0.1) dispatches a notification
SleepNotify(notes, maxNotes) ==
    /\ Running("smart_sleep", "wait")
    /\ \E note \in notes : Deliver(note, maxNotes)

\* smart_sleep: waitForNotifications(0.1) raises on the dead link
SleepLinkError ==
    /\ Running("smart_sleep", "wait")
    /\ link = "down"
    /\ LinkError
    /\ UNCHANGED <<op, link, subscribed, hsWrites, tables, delegate, protocol, droneAcks,
                   wire, issued, bounds>>

\* the caller calls fly_direct(roll, 0, 0, 0, duration)
CallFlyDirect(roll, pitch, yaw, vertical_movement, maxOps) ==
    /\ CanCall(maxOps)
    /\ LET r == get_command_tuple(command_tuple_cache, "Piloting", "PCMD")
       IN  /\ command_tuple_cache' = r.cache
           /\ stack' = <<[fn |-> "fly_direct", pc |-> "loop", iters |-> 0,
                          roll |-> roll, pitch |-> pitch, yaw |-> yaw,
                          vertical_movement |-> vertical_movement,
                          my_roll |-> ensure_fly_command_in_range(roll),
                          my_pitch |-> ensure_fly_command_in_range(pitch),
                          my_yaw |-> ensure_fly_command_in_range(yaw),
                          my_vertical |-> ensure_fly_command_in_range(vertical_movement),
                          command_tuple |-> r.ret]>>
    /\ op' = "fly_direct"
    /\ nOps' = nOps + 1
    /\ UNCHANGED <<outcome, link, subscribed, hsWrites, tables, delegate,
                   characteristic_send_counter, command_received, sensors,
                   sensor_tuple_cache, droneAcks, wire, issued, cyc, disp, nNotes, nDrops,
                   nConnects>>

\* fly_direct: the while test; the next PCMD frame is built and written, or the
\* duration is over
FlyLoop(maxIters) ==
    /\ Running("fly_direct", "loop")
    /\ LET f == Top(stack)
           counters == Inc(characteristic_send_counter, "SEND_NO_ACK")
       IN  \/ /\ f.iters < maxIters
              /\ characteristic_send_counter' = counters
              /\ issued' = [issued EXCEPT !["SEND_NO_ACK"] = @ + 1]
              /\ IF f.command_tuple = None
                 THEN /\ stack' = <<>>
                      /\ outcome' = [op |-> op, ret |-> "raised", exc |-> "TypeError"]
                 ELSE /\ stack' = Append(
                            SetTop(stack, [f EXCEPT !.pc = "write", !.iters = f.iters + 1]),
                            SafeWriteFrame("SEND_NO_ACK",
                                PcmdPacket(counters, f.command_tuple.v, f.my_roll,
                                           f.my_pitch, f.my_yaw, f.my_vertical),
                                issued'["SEND_NO_ACK"]))
                      /\ outcome' = outcome
           \/ /\ stack' = Pop(stack)
              /\ outcome' = [op |-> op, ret |-> "None", exc |-> ""]
              /\ UNCHANGED <<characteristic_send_counter, issued>>
    /\ UNCHANGED <<op, link, subscribed, hsWrites, tables, delegate, command_received,
                   sensors, sensor_tuple_cache, command_tuple_cache, droneAcks, wire, cyc,
                   disp, bounds>>

\* fly_direct: waitForNotifications(0.1) times out
FlyWaitTimeout ==
    /\ Running("fly_direct", "wait")
    /\ link = "up"
    /\ stack' = SetTop(stack, [Top(stack) EXCEPT !.pc = "loop"])
    /\ UNCHANGED <<op, outcome, link, subscribed, hsWrites, tables, delegate, protocol,
                   droneAcks, wire, issued, cyc, disp, bounds>>

\* fly_direct: waitForNotifications(0.1) dispatches a notification
FlyNotify ==
    /\ Running("fly_direct", "wait")
    /\ \E note \in AckNotes \cup DroneNotes : Deliver(note, MaxNotes)

\* fly_direct: waitForNotifications(0.1) raises on the dead link
FlyLinkError ==
    /\ Running("fly_direct", "wait")
    /\ link = "down"
    /\ LinkError
    /\ UNCHANGED <<op, link, subscribed, hsWrites, tables, delegate, protocol, droneAcks,
                   wire, issued, bounds>>

(***************************************************************************)
(* fly_direct on its own: every combination of the four movement values.   *)
(***************************************************************************)
FlyInputs == {-150, -101, 37, 100, 150}

\* the value of a byte read as struct's "b"
SignedByte(b) == IF b > 127 THEN b - 256 ELSE b

\* v limited to [-100, 100]
Clamped(v) == IF v > 100 THEN 100 ELSE IF v < -100 THEN -100 ELSE v

(***************************************************************************)
(* The environment and the next-state relation.                            *)
(***************************************************************************)
\* the radio link drops; what the drone had under way is lost
LinkDrop ==
    /\ link = "up"
    /\ nDrops < MaxDrops
    /\ nDrops' = nDrops + 1
    /\ link' = "down"
    /\ droneAcks' = {}
    /\ UNCHANGED <<stack, op, outcome, subscribed, hsWrites, tables, delegate, protocol,
                   wire, issued, cyc, disp, nOps, nNotes, nConnects>>

Next ==
    \/ CallConnect
    \/ ConnectLoop
    \/ ConnectLink
    \/ ConnectScan(MaxScans, TRUE)
    \/ ConnectHandshake
    \/ \E name \in NoparamCalls : CallNoparam(name, MaxOps)
    \/ \E degrees \in TurnCalls : CallTurnDegrees(degrees)
    \/ \E direction \in FlipCalls : CallFlip(direction)
    \/ CycleLoop
    \/ SafeWrite
    \/ ReconnectTry
    \/ ReconnectFinish
    \/ CallSmartSleep(MaxOps)
    \/ SleepReturn
    \/ SleepNotify(AckNotes \cup DroneNotes, MaxNotes)
    \/ SleepLinkError
    \/ \E roll \in FlyCalls : CallFlyDirect(roll, 0, 0, 0, MaxOps)
    \/ FlyLoop(MaxFlyIters)
    \/ FlyWaitTimeout
    \/ FlyNotify
    \/ FlyLinkError
    \/ LinkDrop

Spec == Init /\ [][Next]_vars

(***************************************************************************)
(* Long runs of a connected program, to the wrap of a sequence counter.    *)
(***************************************************************************)
\* the state connect returns True in when the first scan saw every characteristic
Connected ==
    /\ stack = <<>>
    /\ op = "connect"
    /\ outcome = [op |-> "connect", ret |-> "True", exc |-> ""]
    /\ link = "up"
    /\ subscribed = HandshakeList
    /\ receive_characteristics =
          TableOf(AllChars, {"ARCOMMAND_RECEIVING_SERVICE"}, characteristic_receive_uuids)
    /\ send_characteristics =
          TableOf(AllChars, {"ARCOMMAND_SENDING_SERVICE"}, characteristic_send_uuids)
    /\ ftp_characteristics =
          TableOf(AllChars, {"UPDATE_BLE_FTP", "NORMAL_BLE_FTP_SERVICE"},
                  characteristic_ftp_uuids)
    /\ handshake_characteristics = [k \in HandshakeList |-> k]
    /\ delegate = [set |-> TRUE, handle_map |-> HandleMapOf(AllChars)]
    /\ characteristic_send_counter = InitCounters
    /\ command_received = InitReceived
    /\ sensors = InitSensors
    /\ sensor_tuple_cache = <<>>
    /\ command_tuple_cache = <<>>
    /\ droneAcks = {}
    /\ wire = [c \in Range(characteristic_send_uuids) |-> NoFrame]
    /\ issued = [c \in Range(characteristic_send_uuids) |-> 0]
    /\ cyc = InitCyc
    /\ disp = InitDisp
    /\ hsWrites = HandshakeCount
    /\ nOps = 0
    /\ nNotes = 0
    /\ nDrops = 0
    /\ nConnects = 1

\* the battery report the drone repeats
BatteryNote == [handle |-> <<"fb", "0e">>, data |-> <<4, 9, 0, 5, 1, 0, 80>>]

\* The caller repeats takeoff, or makes one long fly_direct, or one long
\* smart_sleep; the link holds, the drone acks every command at once and
\* reports its battery while the program sleeps.
NextWrap ==
    \/ op \in {"connect", "takeoff"} /\ CallNoparam("takeoff", WrapLen)
    \/ op = "connect" /\ CallSmartSleep(WrapLen)
    \/ op = "connect" /\ CallFlyDirect(150, 0, 0, 0, WrapLen)
    \/ CycleLoop
    \/ SafeWrite
    \/ droneAcks = {} /\ SleepReturn
    \/ SleepNotify(IF op = "takeoff" THEN AckNotes ELSE {BatteryNote}, WrapLen)
    \/ FlyLoop(WrapLen)
    \/ FlyWaitTimeout

SpecWrap == Connected /\ [][NextWrap]_vars

(***************************************************************************)
(* A connected program that sleeps while the drone reports.                *)
(***************************************************************************)
\* the battery percentages the drone reports in SpecTelemetry
BatteryLevels == {0, 55, 255}

\* FlyingStateChanged with every index up to past the four members, an unknown
\* project and an unknown class, a ClawState report and battery reports
TelemetryNotes ==
    {[handle |-> <<"fb", "0f">>, data |-> <<2, 5, 2, 3, 1, 0, i>>] : i \in 0..5} \cup
    {[handle |-> <<"fb", "0f">>, data |-> <<2, 8, 0, 5, 1, 0, b>>] : b \in BatteryLevels} \cup
    {[handle |-> <<"fb", "0e">>, data |-> <<4, 10, 2, 3, 1, 0, 2>>],
     [handle |-> <<"fb", "0e">>, data |-> <<4, 12, 2, 9, 9, 0, 5>>],
     [handle |-> <<"fb", "0f">>, data |-> <<2, 6, 7, 1, 1, 0, 5>>],
     [handle |-> <<"fb", "0f">>, data |-> <<2, 7, 2, 15, 1, 0, 3>>],
     BatteryNote}

NextTelemetry ==
    \/ CallSmartSleep(MaxOps)
    \/ SleepNotify(TelemetryNotes, MaxTelNotes)
    \/ SleepReturn
    \/ SleepLinkError
    \/ SafeWrite
    \/ ReconnectTry
    \/ ReconnectFinish

SpecTelemetry == Connected /\ [][NextTelemetry]_vars

\* The caller repeats the parameterless commands of both dictionaries until the
\* sequence byte has taken every value; the drone acks every frame at once.
CodecCalls == {"takeoff", "land", "ask_for_state_update"}

NextCodec ==
    \/ \E name \in CodecCalls : CallNoparam(name, WrapLen)
    \/ CycleLoop
    \/ SafeWrite
    \/ droneAcks = {} /\ SleepReturn
    \/ SleepNotify(AckNotes, WrapLen)

SpecCodec == Connected /\ [][NextCodec]_vars

(***************************************************************************)
(* The two lookups of a Mambo loaded with dictionaries that overlap: the   *)
(* name (Shared, State) is in both with different ids, the ids (2, 3, 0)   *)
(* are in both with different names, and each has entries of its own.      *)
(***************************************************************************)
OverlapDevice ==
    [id |-> 2,
     myclass |-> <<
        Class(0, "Piloting", <<Cmd(1, "TakeOff", <<>>)>>),
        Class(3, "Settings", <<Cmd(0, "CutOutMode", <<Arg("enable", "u8")>>)>>),
        Class(5, "Shared", <<Cmd(1, "State", <<Arg("device_value", "u8")>>)>>)>>]

OverlapCommon ==
    [id |-> 2,
     myclass |-> <<
        Class(3, "Settings", <<Cmd(0, "AllSettings", <<>>)>>),
        Class(6, "Shared", <<Cmd(4, "State", <<Arg("common_value", "u16")>>),
                             Cmd(2, "Other", <<>>)>>)>>]

OverlapClasses == {"Piloting", "Settings", "Shared", "Nope"}

OverlapCmds == {"TakeOff", "CutOutMode", "AllSettings", "State", "Other"}

OverlapTuples ==
    {<<4, 1, 2, 3, 0, 0>>, <<4, 1, 2, 5, 1, 0>>, <<4, 1, 2, 6, 4, 0>>, <<4, 1, 2, 6, 1, 0>>,
     <<4, 1, 0, 3, 0, 0>>}

\* a call of _get_command_tuple; outcome keeps its arguments and what it returned
ResolveName(myclass, cmd) ==
    /\ LET r == get_command_tuple_in(OverlapDevice, OverlapCommon, command_tuple_cache,
                                     myclass, cmd)
       IN  /\ command_tuple_cache' = r.cache
           /\ outcome' = [op |-> "_get_command_tuple", args |-> <<myclass, cmd>>,
                          ret |-> r.ret, exc |-> ""]
    /\ UNCHANGED <<stack, op, link, subscribed, hsWrites, tables, delegate,
                   characteristic_send_counter, command_received, sensors,
                   sensor_tuple_cache, droneAcks, wire, issued, cyc, disp, bounds>>

\* a call of _parse_sensor_tuple
DescribeTuple(sensor_tuple) ==
    /\ LET r == parse_sensor_tuple_in(OverlapDevice, OverlapCommon, sensor_tuple_cache,
                                      sensor_tuple)
       IN  /\ sensor_tuple_cache' = r.cache
           /\ outcome' = [op |-> "_parse_sensor_tuple", args |-> sensor_tuple,
                          ret |-> [found |-> r.found, names |-> r.names, sizes |-> r.sizes],
                          exc |-> ""]
    /\ UNCHANGED <<stack, op, link, subscribed, hsWrites, tables, delegate,
                   characteristic_send_counter, command_received, sensors,
                   command_tuple_cache, droneAcks, wire, issued, cyc, disp, bounds>>

NextOrder ==
    \/ \E myclass \in OverlapClasses, cmd \in OverlapCmds : ResolveName(myclass, cmd)
    \/ \E sensor_tuple \in OverlapTuples : DescribeTuple(sensor_tuple)

SpecOrder == Init /\ [][NextOrder]_vars

\* connect and one takeoff, with no limit on the rounds of discovery; the
\* interpreter keeps running whatever call is under way, and the clock ends
\* every smart_sleep
NextLive ==
    \/ CallConnect
    \/ ConnectLoop
    \/ ConnectLink
    \/ ConnectScan(MaxScans, FALSE)
    \/ ConnectHandshake
    \/ CallNoparam("takeoff", MaxLiveOps)
    \/ CycleLoop
    \/ SafeWrite
    \/ ReconnectTry
    \/ ReconnectFinish
    \/ SleepReturn
    \/ SleepNotify(AckNotes, MaxNotes)
    \/ SleepLinkError
    \/ LinkDrop

SpecLive == Init /\ [][NextLive]_vars /\ WF_vars(NextLive) /\ SF_vars(SleepReturn)

\* a connected client that only flies directly, on a link that stays up
NextFly ==
    \/ \E roll, pitch, yaw, vertical_movement \in FlyInputs :
          CallFlyDirect(roll, pitch, yaw, vertical_movement, MaxFlyOps)
    \/ FlyLoop(MaxFlyIters)
    \/ SafeWrite
    \/ FlyWaitTimeout

SpecFly == Connected /\ [][NextFly]_vars

(***************************************************************************)
(* Mambo.safe_takeoff on a link that stays up.  Its frame keeps rounds, the *)
(* calls of smart_sleep(1) made so far, and expired, whether timeout       *)
(* seconds have passed since start_time; each round takes a second or more. *)
(***************************************************************************)
\* the caller calls safe_takeoff(timeout)
CallSafeTakeoff(timeout, maxOps) ==
    /\ CanCall(maxOps)
    /\ op' = "safe_takeoff"
    /\ nOps' = nOps + 1
    /\ stack' = <<[fn |-> "safe_takeoff", pc |-> "first", timeout |-> timeout,
                   rounds |-> 0, expired |-> FALSE]>>
    /\ UNCHANGED <<outcome, link, subscribed, hsWrites, tables, delegate, protocol,
                   droneAcks, wire, issued, cyc, disp, nNotes, nDrops, nConnects>>

\* the clock passes start_time + timeout while safe_takeoff runs
ClockExpires ==
    /\ Len(stack) > 0
    /\ stack[1].fn = "safe_takeoff"
    /\ ~stack[1].expired
    /\ stack' = [stack EXCEPT ![1].expired = TRUE]
    /\ UNCHANGED <<op, outcome, link, subscribed, hsWrites, tables, delegate, protocol,
                   droneAcks, wire, issued, cyc, disp, bounds>>

\* the clock reading of a while test is possible: after timeout rounds the
\* timeout has passed
ClockRead(f) == f.rounds < f.timeout \/ f.expired

\* the test of the second while of safe_takeoff
SecondWait(flying_state, expired) ==
    (flying_state # PyStr("flying") \/ flying_state # PyStr("hovering")) /\ ~expired

\* safe_takeoff: the test of the first while; smart_sleep(1) is called or the
\* loop is left
SafeTakeoffFirst ==
    /\ Running("safe_takeoff", "first")
    /\ LET f == Top(stack)
       IN  /\ ClockRead(f)
           /\ IF sensors.flying_state # PyStr("takingoff") /\ ~f.expired
              THEN stack' = Append(SetTop(stack, [f EXCEPT !.pc = "first_sleep",
                                                           !.rounds = f.rounds + 1]),
                                   SleepFrame)
              ELSE stack' = SetTop(stack, [f EXCEPT !.pc = "second"])
    /\ UNCHANGED <<op, outcome, link, subscribed, hsWrites, tables, delegate, protocol,
                   droneAcks, wire, issued, cyc, disp, bounds>>

\* safe_takeoff: success = self.takeoff()
SafeTakeoffTakeoff ==
    /\ Running("safe_takeoff", "takeoff")
    /\ LET r == get_command_tuple(command_tuple_cache, NoparamNames["takeoff"][1],
                                  NoparamNames["takeoff"][2])
           counters == Inc(characteristic_send_counter, "SEND_WITH_ACK")
       IN  /\ command_tuple_cache' = r.cache
           /\ characteristic_send_counter' = counters
           /\ issued' = [issued EXCEPT !["SEND_WITH_ACK"] = @ + 1]
           /\ IF r.ret = None
              THEN RaiseAtCall(op, "TypeError")
              ELSE BeginCycle(NoparamPacket(counters, r.ret.v))
    /\ UNCHANGED <<op, link, subscribed, hsWrites, tables, delegate, sensors,
                   sensor_tuple_cache, droneAcks, wire, disp, bounds>>

\* safe_takeoff: the test of the second while; smart_sleep(1) is called or
\* safe_takeoff returns
SafeTakeoffSecond ==
    /\ Running("safe_takeoff", "second")
    /\ LET f == Top(stack)
       IN  /\ ClockRead(f)
           /\ IF SecondWait(sensors.flying_state, f.expired)
              THEN /\ stack' = Append(SetTop(stack, [f EXCEPT !.pc = "second_sleep",
                                                              !.rounds = f.rounds + 1]),
                                      SleepFrame)
                   /\ outcome' = outcome
              ELSE /\ stack' = Pop(stack)
                   /\ outcome' = [op |-> op, ret |-> "None", exc |-> ""]
    /\ UNCHANGED <<op, link, subscribed, hsWrites, tables, delegate, protocol,
                   droneAcks, wire, issued, cyc, disp, bounds>>

\* what the drone reports of its flight: takingoff, hovering, flying
TakeoffNotes ==
    {[handle |-> <<"fb", "0f">>, data |-> <<2, 5, 2, 3, 1, 0, i>>] : i \in 1..3}

NextTakeoff ==
    \/ CallSafeTakeoff(TakeoffTimeout, MaxTakeoffOps)
    \/ ClockExpires
    \/ SafeTakeoffFirst
    \/ SafeTakeoffTakeoff
    \/ SafeTakeoffSecond
    \/ CycleLoop
    \/ SafeWrite
    \/ SleepReturn
    \/ SleepNotify(AckNotes \cup TakeoffNotes, MaxTakeoffNotes)

SpecTakeoff == Connected /\ [][NextTakeoff]_vars

(***************************************************************************)
(* A connected client that sends takeoff and sleeps in between, on a link  *)
(* that stays up; the drone's acks come when they come, during a cycle or   *)
(* in a smart_sleep after it.                                              *)
(***************************************************************************)
NextIdle ==
    \/ CallNoparam("takeoff", MaxIdleOps)
    \/ CallSmartSleep(MaxIdleOps)
    \/ CycleLoop
    \/ SafeWrite
    \/ SleepReturn
    \/ SleepNotify(AckNotes, MaxNotes)

SpecIdle == Connected /\ [][NextIdle]_vars

(***************************************************************************)
(* The claims.                                                             *)
(***************************************************************************)
CycleOver == cyc.cmd > 0 /\ ~cyc.active

\* C1: a send-with-ack cycle during which no notification arrived on
\* ACK_COMMAND_SENT and no transport call failed has written its frame exactly
\* 3 times and returned False.
C1_NoAckThreeWritesFalse ==
    (CycleOver /\ cyc.acks = 0 /\ ~cyc.linkErr)
        => (cyc.writes = 3 /\ ~cyc.raised /\ cyc.ret = "False")

C1_Witness ==
    /\ CycleOver /\ cyc.acks = 0 /\ ~cyc.linkErr
    /\ cyc.writes = 3 /\ cyc.ret = "False"

C3_FlagOnlyForOwnSequence ==
    /\ (cyc.active /\ command_received["SEND_WITH_ACK"]) => cyc.ownAck
    /\ (CycleOver /\ cyc.ret = "True") => cyc.ownAck

\* C4: a notification on ACK_HIGH_PRIORITY leaves the flag of SEND_WITH_ACK as it
\* was, one on ACK_COMMAND_SENT leaves the flag of SEND_HIGH_PRIORITY as it was,
\* and no cycle returns True without a notification on ACK_COMMAND_SENT.
C4_AckChannelsApart ==
    /\ []((CycleOver /\ cyc.ret = "True") => cyc.acks > 0)
    /\ [][(disp'.tick # disp.tick) =>
            /\ disp'.handle = <<"fb", "1c">> =>
                  command_received'["SEND_WITH_ACK"] = command_received["SEND_WITH_ACK"]
            /\ disp'.handle = <<"fb", "1b">> =>
                  command_received'["SEND_HIGH_PRIORITY"] =
                      command_received["SEND_HIGH_PRIORITY"]]_vars

C4_Witness ==
    /\ cyc.active /\ cyc.writes > 0
    /\ disp.handle = <<"fb", "1c">> /\ disp.state = "returned"
    /\ command_received["SEND_HIGH_PRIORITY"]
    /\ ~command_received["SEND_WITH_ACK"]

\* C5: every sequence counter stays in 0..255, every step leaves it or moves it
\* to (c + 1) mod 256, and after 256 increments it is back at the 0 it started
\* from.
C5_CountersWrap ==
    /\ [](\A ch \in DOMAIN characteristic_send_counter :
            characteristic_send_counter[ch] \in 0..255)
    /\ [](\A ch \in DOMAIN issued :
            characteristic_send_counter[ch] =
                IF issued[ch] < 256 THEN issued[ch] ELSE issued[ch] - 256)
    /\ [][\A ch \in DOMAIN characteristic_send_counter :
            \/ characteristic_send_counter'[ch] = characteristic_send_counter[ch]
            \/ characteristic_send_counter'[ch] =
                  IF characteristic_send_counter[ch] = 255 THEN 0
                  ELSE characteristic_send_counter[ch] + 1]_vars

C5_Witness ==
    /\ issued["SEND_WITH_ACK"] = 256
    /\ characteristic_send_counter["SEND_WITH_ACK"] = 0
    /\ wire["SEND_WITH_ACK"].cmd = 256 /\ wire["SEND_WITH_ACK"].packet[2] = 0

\* the frame built for command n of channel ch, when the stack holds one
FramesOf(stk, ch, n) ==
    {stk[i].packet : i \in {j \in 1..Len(stk) :
        /\ stk[j].fn \in {"_send_command_packet_ack", "_safe_ble_write"}
        /\ stk[j].cmd = n
        /\ ch = IF stk[j].fn = "_safe_ble_write" THEN stk[j].channel ELSE "SEND_WITH_ACK"}}

\* C6: a frame about to be written carries in its sequence byte the counter of
\* its channel, the frame a write puts on a channel does too, and the step that
\* builds a frame increments the counter first and packs the new value.
C6_SeqIsCounter ==
    /\ [](\A i \in 1..Len(stack) : stack[i].fn = "_safe_ble_write" =>
            stack[i].packet[2] = characteristic_send_counter[stack[i].channel])
    /\ [][\A ch \in DOMAIN wire :
            /\ wire'[ch] # wire[ch] =>
                  wire'[ch].packet[2] = characteristic_send_counter'[ch]
            /\ (issued'[ch] # issued[ch] /\ FramesOf(stack', ch, issued'[ch]) # {}) =>
                  /\ characteristic_send_counter'[ch] =
                        (characteristic_send_counter[ch] + 1) % 256
                  /\ \A packet \in FramesOf(stack', ch, issued'[ch]) :
                        packet[2] = characteristic_send_counter'[ch]]_vars

C6_Witness ==
    /\ wire["SEND_WITH_ACK"].cmd = 1 /\ wire["SEND_WITH_ACK"].packet[2] = 1
    /\ wire["SEND_NO_ACK"].cmd = 2 /\ wire["SEND_NO_ACK"].packet[2] = 2
    /\ characteristic_send_counter["SEND_NO_ACK"] = 2

\* C7: on every outbound channel a write never puts a frame of an earlier
\* command after one of a later command, and the sequence bytes of the frames of
\* consecutive commands differ by exactly one (mod 256).
C7_SeqInCommandOrder ==
    [][\A ch \in DOMAIN wire :
        (wire'[ch] # wire[ch] /\ wire[ch].cmd > 0) =>
            /\ wire'[ch].cmd > wire[ch].cmd
            /\ (wire'[ch].packet[2] - wire[ch].packet[2]) % 256
                  \in 1..(wire'[ch].cmd - wire[ch].cmd)
            /\ wire'[ch].cmd = wire[ch].cmd + 1 =>
                  wire'[ch].packet[2] = (wire[ch].packet[2] + 1) % 256]_vars

C7_Witness ==
    /\ wire["SEND_WITH_ACK"].cmd = 2 /\ wire["SEND_WITH_ACK"].packet[2] = 2
    /\ droneAcks = {1, 2}
    /\ disp.state = "returned" /\ disp.handle = <<"fb", "0f">>

\* C8: every frame dispatched from ACK_DRONE_DATA was answered by exactly one
\* frame on ACK_COMMAND, holding the ack type, the counter of ACK_COMMAND after its
\* increment and the sequence byte of the inbound frame; a frame from
\* NO_ACK_DRONE_DATA was answered by none.
C8_AckOfReceipt ==
    /\ (disp.state \in {"returned", "raised"} /\ disp.handle = <<"fb", "0e">>) =>
          disp.acks = << <<data_types.ACK, characteristic_send_counter["ACK_COMMAND"],
                           disp.data[2]>> >>
    /\ disp.handle = <<"fb", "0f">> => disp.acks = <<>>

\* C9: the dispatch of a notification whose handle is none of the four receive
\* characteristics returns without an exception and writes nothing.
C9_UnknownHandleDropped ==
    (disp.state # "none" /\ disp.handle[2] \notin DOMAIN characteristic_receive_uuids)
        => (disp.state = "returned" /\ disp.acks = <<>>)

\* C10: the dispatch of a data frame shorter than the 6 header bytes, from a
\* characteristic the delegate knows, returns without an exception.
C10_ShortFrameDropped ==
    (/\ disp.state # "none"
     /\ disp.handle \in {<<"fb", "0e">>, <<"fb", "0f">>}
     /\ disp.handle \in DOMAIN delegate.handle_map
     /\ Len(disp.data) < 6)
        => disp.state = "returned"

DispatchOver == disp.state \in {"returned", "raised"}

DataHandles == {<<"fb", "0e">>, <<"fb", "0f">>}

\* C11: after the dispatch of a FlyingStateChanged frame with index i the flying
\* state is member i of <<landed, takingoff, hovering, flying>> when i < 4 and
\* the sentinel UNKNOWN_ENUM_VALUE for every i >= 4, i = 4 included.
C11_EnumDecode ==
    (/\ DispatchOver
     /\ disp.handle \in DataHandles
     /\ Len(disp.data) = 7
     /\ SubSeq(disp.data, 3, 6) = <<2, 3, 1, 0>>)
        => sensors.flying_state =
              IF disp.data[7] < 4
              THEN PyStr(<<"landed", "takingoff", "hovering", "flying">>[disp.data[7] + 1])
              ELSE PyStr("UNKNOWN_ENUM_VALUE")

\* the header names a command of minidrone.xml or common.xml
InDictionary(data) ==
    \/ data[3] = minidrone_commands.id /\ IdMatches(minidrone_commands, data[4], data[5]) # {}
    \/ data[3] = common_commands.id /\ IdMatches(common_commands, data[4], data[5]) # {}

UnknownTuple(d) ==
    d.handle \in DataHandles /\ Len(d.data) >= 6 /\ ~InDictionary(d.data)

\* the sensor names the dictionaries declare
DeclaredNames ==
    UNION {UNION {Range(SensorNames(project.myclass[p[1]].cmd[p[2]])) :
                      p \in CmdIndexes(project)} :
               project \in {minidrone_commands, common_commands}}

\* C12 as stated: after the dispatch of a frame whose tuple is in neither
\* dictionary the unknown bucket holds an entry.
C12_UnknownTupleStored ==
    (DispatchOver /\ UnknownTuple(disp)) => DOMAIN sensors.unknown_sensors # {}

\* C12 amended: the dispatch of a frame whose tuple is in neither dictionary
\* raises nothing, leaves every sensor and the unknown bucket as they were,
\* caches the miss and still answers a frame of ACK_DRONE_DATA; the unknown bucket
\* only ever holds names a dictionary declares.
C12_UnknownTupleLogged ==
    /\ [](DOMAIN sensors.unknown_sensors \subseteq DeclaredNames)
    /\ [][(disp'.tick # disp.tick /\ UnknownTuple(disp')) =>
            LET key == SubSeq(disp'.data, 3, 6)
            IN  /\ sensors' = sensors
                /\ disp'.state # "raised"
                /\ key \in DOMAIN sensor_tuple_cache'
                /\ ~sensor_tuple_cache'[key].found
                /\ disp'.handle = <<"fb", "0e">> =>
                      /\ Top(stack').fn = "_safe_ble_write"
                      /\ Top(stack').channel = "ACK_COMMAND"
                      /\ Top(stack').packet[3] = disp'.data[2]]_vars

C12_Witness ==
    /\ disp.state = "returned" /\ UnknownTuple(disp)
    /\ disp.handle = <<"fb", "0e">> /\ Len(disp.acks) = 1
    /\ ~sensor_tuple_cache[SubSeq(disp.data, 3, 6)].found
    /\ sensors.unknown_sensors = <<>>

\* every entry of the four tables has been matched
TablesComplete ==
    /\ DOMAIN receive_characteristics =
          {"ACK_DRONE_DATA", "NO_ACK_DRONE_DATA", "ACK_COMMAND_SENT", "ACK_HIGH_PRIORITY"}
    /\ DOMAIN send_characteristics =
          {"SEND_NO_ACK", "SEND_WITH_ACK", "SEND_HIGH_PRIORITY", "ACK_COMMAND"}
    /\ DOMAIN ftp_characteristics =
          {"NORMAL_FTP_TRANSFERRING", "NORMAL_FTP_GETTING", "NORMAL_FTP_HANDLING",
           "UPDATE_FTP_TRANSFERRING", "UPDATE_FTP_GETTING", "UPDATE_FTP_HANDLING"}
    /\ Cardinality(DOMAIN handshake_characteristics) = 10
    /\ DOMAIN handshake_characteristics = HandshakeList

\* C13: the handshake is reached, done, and connect has returned True only with
\* every entry of the receive, send, FTP and handshake tables matched; a scan
\* after which an entry is still unmatched is followed by another scan.
C13_NoPartialDiscovery ==
    /\ []((Running("_connect", "handshake") \/ hsWrites > 0 \/ delegate.set)
            => TablesComplete)
    /\ [][(/\ Running("_connect", "scan")
           /\ Len(stack') = Len(stack)
           /\ Top(stack').scans = Top(stack).scans + 1
           /\ ~TablesComplete') => Top(stack').pc = "scan"]_vars

C13_Witness ==
    /\ Running("_connect", "handshake")
    /\ Top(stack).scans = 2
    /\ TablesComplete

\* C20: fly_direct is never rejected, and each PCMD frame it writes carries roll,
\* pitch, yaw and vertical movement clamped to [-100, 100]: 150 goes out as 100,
\* -150 as -100 and a value in range as itself.
C20_FlyDirectClamps ==
    /\ outcome.exc = ""
    /\ Running("fly_direct", "wait") =>
          LET f == Top(stack)
              packet == wire["SEND_NO_ACK"].packet
          IN  /\ Len(packet) = 15
              /\ SignedByte(packet[8]) = Clamped(f.roll)
              /\ SignedByte(packet[9]) = Clamped(f.pitch)
              /\ SignedByte(packet[10]) = Clamped(f.yaw)
              /\ SignedByte(packet[11]) = Clamped(f.vertical_movement)

C20_Witness ==
    /\ Running("fly_direct", "wait")
    /\ Top(stack).roll = 150 /\ Top(stack).pitch = -150 /\ Top(stack).yaw = 37
    /\ Top(stack).vertical_movement = -101
    /\ SignedByte(wire["SEND_NO_ACK"].packet[8]) = 100
    /\ SignedByte(wire["SEND_NO_ACK"].packet[9]) = -100
    /\ SignedByte(wire["SEND_NO_ACK"].packet[10]) = 37
    /\ SignedByte(wire["SEND_NO_ACK"].packet[11]) = -100

\* C14: a frame is about to be written on a link that is up only with the
\* subscribe value written to all ten handshake characteristics since that link
\* came up, whether connect or a reconnect brought it up.
C14_HandshakeBeforeWrite ==
    (Running("_safe_ble_write", "try") /\ link = "up")
        => (hsWrites = HandshakeCount /\ subscribed = HandshakeList)

C14_Witness ==
    /\ Running("_safe_ble_write", "try") /\ link = "up"
    /\ Top(stack).after = "succeeded"
    /\ Top(stack).channel = "SEND_WITH_ACK"
    /\ hsWrites = HandshakeCount /\ subscribed = HandshakeList

\* C15: connect(num_retries=3) returns False only after 3 runs of _connect have
\* each failed with a link error.
C15_ConnectThreeAttempts ==
    [][(Running("connect", "loop") /\ Len(stack') = 0 /\ outcome'.ret = "False")
          => Top(stack).tries = 3]_vars

\* C16: _reconnect(3) returns without success only after 3 calls of
\* self.drone.connect have each failed with a link error.
C16_ReconnectThreeAttempts ==
    [][(/\ Running("_reconnect", "loop")
        /\ ~Top(stack).success
        /\ Len(stack') < Len(stack)) => Top(stack).tries = 3]_vars

\* C17: every safe write, every send-with-ack cycle and every connect that has
\* begun comes to an end, whatever the link and the discovery do.
C17_AllTerminate ==
    /\ HasFrame(stack, "_safe_ble_write") ~> ~HasFrame(stack, "_safe_ble_write")
    /\ HasFrame(stack, "_send_command_packet_ack")
          ~> ~HasFrame(stack, "_send_command_packet_ack")
    /\ HasFrame(stack, "connect") ~> ~HasFrame(stack, "connect")

\* C18: no public call ends with a raw BTLEException.
C18_NoRawLinkError == outcome.exc # "BTLEException"

\* C19: no write of _safe_ble_write is attempted after a reconnection that failed.
C19_NoWriteAfterFailedReconnect ==
    Running("_safe_ble_write", "try") => Top(stack).after # "failed"

\* C21: the header decoded from the frame a parameterless command built is
\* (4, the counter of SEND_WITH_ACK, project id, class id, command id, 0), for every
\* sequence value and every command resolved.
C21_HeaderRoundTrip ==
    \A i \in 1..Len(stack) :
        stack[i].fn = "_send_command_packet_ack" =>
            LET ids == SearchCommandTuple(NoparamNames[op][1], NoparamNames[op][2]).v
            IN  UnpackHeader(stack[i].packet) =
                    <<4, characteristic_send_counter["SEND_WITH_ACK"], ids[1], ids[2],
                      ids[3], 0>>

C21_Witness ==
    /\ Running("_send_command_packet_ack", "loop")
    /\ op = "ask_for_state_update"
    /\ nOps = CounterWrap
    /\ UnpackHeader(Top(stack).packet) = <<4, 0, 0, 4, 0, 0>>

\* the lookup and the search of a cache key, a name pair or a name triple
C22_Lookup(k) ==
    IF Len(k) = 2 THEN get_command_tuple(command_tuple_cache, k[1], k[2])
    ELSE get_command_tuple_with_enum(command_tuple_cache, k[1], k[2], k[3])

C22_Search(k) ==
    IF Len(k) = 2 THEN SearchCommandTuple(k[1], k[2])
    ELSE SearchCommandTupleWithEnum(k[1], k[2], k[3])

\* C22: a name found in a dictionary is in the cache once a command resolved it;
\* resolving a cached name again returns the cached identifiers, which are those
\* of the dictionary, without running the search and without touching the
\* cache; and no entry of the cache is ever changed or removed.
C22_ResolveCached ==
    /\ []((op \in DOMAIN NoparamNames /\ C22_Search(NoparamNames[op]) # None)
            => NoparamNames[op] \in DOMAIN command_tuple_cache)
    /\ [](\A k \in DOMAIN command_tuple_cache :
            /\ ~C22_Lookup(k).scanned
            /\ C22_Lookup(k).ret = command_tuple_cache[k]
            /\ C22_Lookup(k).ret = C22_Search(k)
            /\ C22_Lookup(k).cache = command_tuple_cache)
    /\ [][\A k \in DOMAIN command_tuple_cache :
            /\ k \in DOMAIN command_tuple_cache'
            /\ command_tuple_cache'[k] = command_tuple_cache[k]]_vars

C22_Witness ==
    /\ op = "takeoff" /\ cyc.active /\ cyc.cmd = 2
    /\ wire["SEND_WITH_ACK"].cmd = 1
    /\ DOMAIN command_tuple_cache = {<<"Piloting", "TakeOff">>}

\* C23: a parameterless command whose name is in neither dictionary ends at once
\* with a failure result and no exception, writes no frame, starts no cycle and
\* leaves every counter and every ack flag as it was.
C23_LookupFailureSurfaced ==
    [][(/\ nOps' = nOps + 1
        /\ op' \in DOMAIN NoparamNames
        /\ C22_Search(NoparamNames[op']) = None)
          => (/\ stack' = <<>>
              /\ outcome'.op = op' /\ outcome'.exc = "" /\ outcome'.ret = "False"
              /\ wire' = wire
              /\ characteristic_send_counter' = characteristic_send_counter
              /\ command_received' = command_received)]_vars

\* C24: a miss is cached as a hit is: after the dispatch of a frame whose tuple
\* is in neither dictionary the sensor cache holds a not-found entry for it, and
\* after a command whose name is in neither dictionary the command cache holds an
\* entry for that name.
C24_MissesCached ==
    /\ (DispatchOver /\ UnknownTuple(disp)) =>
          /\ SubSeq(disp.data, 3, 6) \in DOMAIN sensor_tuple_cache
          /\ ~sensor_tuple_cache[SubSeq(disp.data, 3, 6)].found
    /\ (op \in DOMAIN NoparamNames /\ C22_Search(NoparamNames[op]) = None) =>
          NoparamNames[op] \in DOMAIN command_tuple_cache

\* the ids of the entries of a dictionary with a name, and the entries with ids
C25_Named(project, a) == {TupleAt(project, p) : p \in NameMatches(project, a[1], a[2])}

C25_Numbered(project, t) ==
    IF t[3] # project.id THEN {}
    ELSE {project.myclass[p[1]].cmd[p[2]] : p \in IdMatches(project, t[4], t[5])}

\* C25: a name or a tuple of ids that the device dictionary has resolves to the
\* device dictionary's entry, also when the common dictionary has it too; the
\* common dictionary's entry is returned only when the device dictionary has
\* none, and what is returned is one entry, never a mix.
C25_DeviceFirst ==
    /\ outcome.op = "_get_command_tuple" =>
          LET a == outcome.args
          IN  IF C25_Named(OverlapDevice, a) # {}
              THEN outcome.ret # None /\ outcome.ret.v \in C25_Named(OverlapDevice, a)
              ELSE IF C25_Named(OverlapCommon, a) # {}
              THEN outcome.ret # None /\ outcome.ret.v \in C25_Named(OverlapCommon, a)
              ELSE outcome.ret = None
    /\ outcome.op = "_parse_sensor_tuple" =>
          LET t == outcome.args
              given(c) == /\ outcome.ret.found
                          /\ outcome.ret.names = SensorNames(c)
                          /\ outcome.ret.sizes = SensorSizes(c)
          IN  IF C25_Numbered(OverlapDevice, t) # {}
              THEN \E c \in C25_Numbered(OverlapDevice, t) : given(c)
              ELSE IF C25_Numbered(OverlapCommon, t) # {}
              THEN \E c \in C25_Numbered(OverlapCommon, t) : given(c)
              ELSE ~outcome.ret.found

C25_Witness ==
    /\ outcome.op = "_parse_sensor_tuple"
    /\ outcome.args = <<4, 1, 2, 3, 0, 0>>
    /\ outcome.ret.names = <<(<<"CutOutMode", "enable">>)>>
    /\ <<"Shared", "State">> \in DOMAIN command_tuple_cache
    /\ command_tuple_cache[<<"Shared", "State">>].v = <<2, 5, 1>>
    /\ <<"Shared", "Other">> \in DOMAIN command_tuple_cache
    /\ command_tuple_cache[<<"Shared", "Other">>].v = <<2, 6, 2>>

\* the members FlyingStateChanged declares
C26_States == <<"landed", "takingoff", "hovering", "flying">>

\* C26: the dispatch of a battery frame with payload byte b sets battery to b
\* and changes no other sensor; the dispatch of a FlyingStateChanged frame with
\* an index inside the member list sets flying_state to the member at that index.
C26_BatteryAndFlyingState ==
    [][(/\ disp'.tick # disp.tick
        /\ disp'.handle \in DataHandles
        /\ Len(disp'.data) = 7) =>
          /\ SubSeq(disp'.data, 3, 6) = <<0, 5, 1, 0>> =>
                sensors' = [sensors EXCEPT !.battery = PyInt(disp'.data[7])]
          /\ (SubSeq(disp'.data, 3, 6) = <<2, 3, 1, 0>> /\ disp'.data[7] < 4) =>
                sensors' = [sensors EXCEPT
                               !.flying_state = PyStr(C26_States[disp'.data[7] + 1])]]_vars

C26_Witness ==
    /\ sensors.battery = PyInt(55)
    /\ sensors.flying_state = PyStr("hovering")
    /\ DispatchOver

\* C27: a notification from a data characteristic delivered while a
\* send-with-ack cycle waits is dispatched in that wait: the dispatch does not
\* raise, a battery report is in the sensors, and a frame of ACK_DRONE_DATA has its
\* ack of receipt on the way to the transport, ahead of the cycle; and after an
\* ack notification the flag is set when the cycle next tests it.
C27_NotStarved ==
    /\ [][(cyc.active /\ disp'.tick # disp.tick /\ disp'.handle \in DataHandles) =>
            /\ disp'.state # "raised"
            /\ (Len(disp'.data) = 7 /\ SubSeq(disp'.data, 3, 6) = <<0, 5, 1, 0>>) =>
                  sensors'.battery = PyInt(disp'.data[7])
            /\ disp'.handle = <<"fb", "0e">> =>
                  /\ Top(stack').fn = "_safe_ble_write"
                  /\ Top(stack').channel = "ACK_COMMAND"
                  /\ HasFrame(stack', "_send_command_packet_ack")]_vars
    /\ []((Running("_send_command_packet_ack", "loop") /\ cyc.acks > 0)
            => command_received["SEND_WITH_ACK"])

\* fly_direct is being called, or running
C28_InFlyDirect == HasFrame(stack, "fly_direct") \/ HasFrame(stack', "fly_direct")

C28_OtherCounters ==
    <<characteristic_send_counter["SEND_WITH_ACK"],
      characteristic_send_counter["SEND_HIGH_PRIORITY"]>>

\* C28 as stated: from the call of fly_direct to its end no ack flag changes and
\* the counters of SEND_WITH_ACK and SEND_HIGH_PRIORITY stay.
C28_FlyDirectNoFlags ==
    [][C28_InFlyDirect =>
          /\ command_received' = command_received
          /\ C28_OtherCounters' = C28_OtherCounters]_vars

\* C28 amended: every frame fly_direct hands to the transport is a new
\* DATA_NO_ACK frame whose sequence byte is the counter of SEND_NO_ACK just
\* incremented; from the call of fly_direct to its end the counters of
\* SEND_WITH_ACK and SEND_HIGH_PRIORITY stay, and an ack flag changes only in the
\* dispatch of a notification that arrived during the wait.
C28_FlyDirectUnacked ==
    /\ [][(/\ Len(stack') > Len(stack)
           /\ Top(stack').fn = "_safe_ble_write"
           /\ Top(stack').channel = "SEND_NO_ACK") =>
            /\ Running("fly_direct", "loop")
            /\ characteristic_send_counter'["SEND_NO_ACK"] =
                  (characteristic_send_counter["SEND_NO_ACK"] + 1) % CounterWrap
            /\ Top(stack').packet[1] = data_types.DATA_NO_ACK
            /\ Top(stack').packet[2] = characteristic_send_counter'["SEND_NO_ACK"]
            /\ Top(stack').cmd = issued["SEND_NO_ACK"] + 1]_vars
    /\ [][C28_InFlyDirect =>
            /\ C28_OtherCounters' = C28_OtherCounters
            /\ disp'.tick = disp.tick => command_received' = command_received]_vars

C28_Witness ==
    /\ Running("fly_direct", "wait")
    /\ wire["SEND_NO_ACK"].cmd = 2
    /\ wire["SEND_NO_ACK"].packet[2] = 2
    /\ disp.state = "returned" /\ disp.handle = <<"fb", "1c">>
    /\ command_received["SEND_HIGH_PRIORITY"]

\* C29: the dispatch of a ClawState frame, whose entry declares the arguments id,
\* state and list_flags, sets claw_id to the byte at offset 6 and leaves every
\* other sensor, claw_state and the unknown sensors included, as it was.
C29_FirstFieldOnly ==
    [][(/\ disp'.tick # disp.tick
        /\ disp'.handle \in DataHandles
        /\ Len(disp'.data) = 7
        /\ SubSeq(disp'.data, 3, 6) = <<2, 15, 1, 0>>)
          => sensors' = [sensors EXCEPT !.claw_id = PyInt(disp'.data[7])]]_vars

\* C30: while _reconnect runs, the four tables of characteristics, the delegate
\* with its handle map, the counters, the ack flags, both caches and the sensors
\* stay as they are; and a _reconnect that got the link back and still has it
\* ends with the subscribe value written to all ten handshake characteristics.
C30_ReconnectKeepsState ==
    /\ [][HasFrame(stack, "_reconnect") => UNCHANGED <<tables, delegate, protocol>>]_vars
    /\ [][(/\ Running("_reconnect", "loop")
           /\ Top(stack).success
           /\ link = "up"
           /\ stack' # stack) =>
            /\ subscribed' = HandshakeList
            /\ hsWrites' = HandshakeCount
            /\ link' = "up"]_vars

C30_Witness ==
    /\ Running("_safe_ble_write", "try")
    /\ Top(stack).after = "succeeded"
    /\ link = "up" /\ subscribed = HandshakeList
    /\ characteristic_send_counter["SEND_WITH_ACK"] = 1
    /\ DOMAIN command_tuple_cache # {}
    /\ sensors.battery = PyInt(80)
    /\ DOMAIN sensor_tuple_cache # {}

\* C31: the sensors change only in the step that dispatches a notification from
\* a data characteristic, and then to what _update_sensors makes of its frame;
\* no step of takeoff, take_picture, turn_degrees, flip or fly_direct, from the
\* call to the return, changes them by itself.
C31_TelemetrySingleWriter ==
    [][sensors' # sensors =>
          /\ disp'.tick # disp.tick
          /\ disp'.handle \in DataHandles
          /\ op' = op /\ nOps' = nOps
          /\ sensors' = update_sensors(sensors, sensor_tuple_cache, disp'.data).sensors]_vars

C31_Witness ==
    /\ cyc.active /\ op = "takeoff"
    /\ cyc.writes > 0
    /\ disp.state = "returned" /\ disp.handle \in DataHandles
    /\ sensors.battery = PyInt(80)

\* C32: at the test of its second while, safe_takeoff returns at once when the
\* flying state is flying or hovering, whether or not the timeout has passed;
\* when it is neither, safe_takeoff returns if the timeout has passed and
\* sleeps another second if not.
C32_FinalWaitOnState ==
    [][(/\ Running("safe_takeoff", "second")
        /\ stack' # stack
        /\ stack' # [stack EXCEPT ![1].expired = TRUE]) =>
          LET reached == sensors.flying_state \in {PyStr("flying"), PyStr("hovering")}
          IN  /\ reached => (stack' = <<>> /\ outcome'.op = "safe_takeoff")
              /\ ~reached => (stack' = <<>> <=> Top(stack).expired)]_vars

\* C33: a call of flip whose direction is none of front, back, right and left
\* (the only calls of flip that issue no command) returns None to the caller
\* with no exception, hands no frame to the transport, and leaves the counter
\* and the ack flag of SEND_WITH_ACK as they were.
C33_InvalidFlipIgnored ==
    [][(op' = "flip" /\ nOps' = nOps + 1 /\ issued' = issued) =>
          /\ stack' = <<>>
          /\ outcome' = [op |-> "flip", ret |-> "None", exc |-> ""]
          /\ wire' = wire
          /\ characteristic_send_counter' = characteristic_send_counter
          /\ command_received' = command_received]_vars

\* C34: every frame a cycle hands to the transport is the frame built for its
\* command, with the sequence byte the cycle started with; while the cycle runs
\* the counter of SEND_WITH_ACK stays at that byte, having advanced by one when
\* the command was issued; and a cycle that is over has written its frame at
\* least once and at most 3 times.
C34_RetriesResendSameFrame ==
    /\ [](cyc.active =>
            /\ characteristic_send_counter["SEND_WITH_ACK"] = cyc.seq
            /\ cyc.cmd = issued["SEND_WITH_ACK"]
            /\ \A i \in 1..Len(stack) :
                  (stack[i].fn = "_safe_ble_write" /\ stack[i].channel = "SEND_WITH_ACK") =>
                      \E j \in 1..(i - 1) :
                          /\ stack[j].fn = "_send_command_packet_ack"
                          /\ stack[j].packet = stack[i].packet
                          /\ stack[i].packet[2] = cyc.seq)
    /\ [](cyc.writes > 0 =>
            (wire["SEND_WITH_ACK"].cmd = cyc.cmd /\ wire["SEND_WITH_ACK"].packet[2] = cyc.seq))
    /\ [][(issued'["SEND_WITH_ACK"] # issued["SEND_WITH_ACK"]) =>
            characteristic_send_counter'["SEND_WITH_ACK"] =
                (characteristic_send_counter["SEND_WITH_ACK"] + 1) % CounterWrap]_vars
    /\ [][(cyc.writes > 0 /\ cyc'.cmd = cyc.cmd) =>
            wire'["SEND_WITH_ACK"] = wire["SEND_WITH_ACK"]]_vars
    /\ [](CycleOver => cyc.writes \in 1..max_packet_retries)

\* C35: the step that begins a cycle leaves the flag of SEND_WITH_ACK unset,
\* whatever it was; the flag stays unset while the cycle has had no ack
\* notification; and a cycle that had none never returns True: when it returns,
\* it returns False.
C35_IdleAckNotKept ==
    /\ [][cyc'.cmd # cyc.cmd =>
            (cyc'.active /\ cyc'.writes = 0 /\ ~command_received'["SEND_WITH_ACK"])]_vars
    /\ []((cyc.active /\ cyc.acks = 0) => ~command_received["SEND_WITH_ACK"])
    /\ []((CycleOver /\ cyc.acks = 0) => cyc.ret # "True")
    /\ []((CycleOver /\ cyc.acks = 0 /\ ~cyc.raised) => cyc.ret = "False")

\* the ack of the first takeoff came in the smart_sleep after its cycle, and the
\* cycle of the second takeoff, begun after that, got no ack and returned False
C35_Witness ==
    /\ op = "takeoff" /\ nOps = 3
    /\ CycleOver /\ cyc.cmd = 2 /\ cyc.acks = 0
    /\ cyc.writes = 3 /\ cyc.ret = "False"
    /\ disp.state = "returned" /\ disp.idle
    /\ disp.handle = <<"fb", "1b">> /\ disp.data = <<1, 1, 1>>

\* C36: a notification whose dispatch raises while smart_sleep waits (a handle
\* the delegate does not know, a frame shorter than its header or its payload,
\* a FlyingStateChanged index equal to the number of members) starts no
\* _reconnect: the step calls neither drone.connect nor the handshake, and
\* _reconnect runs only after a transport call has raised on a dead link.
C36_ReconnectOnlyOnLinkError ==
    /\ [][(disp'.tick # disp.tick /\ disp'.state = "raised"
             /\ HasFrame(stack, "smart_sleep")) =>
            /\ ~HasFrame(stack', "_reconnect")
            /\ hsWrites' = hsWrites]_vars
    /\ [][(~HasFrame(stack, "_reconnect") /\ HasFrame(stack', "_reconnect")) =>
            link = "down"]_vars

\* the counters of the three channels commands are sent on
C37_SendCounters ==
    <<characteristic_send_counter["SEND_WITH_ACK"], characteristic_send_counter["SEND_NO_ACK"],
      characteristic_send_counter["SEND_HIGH_PRIORITY"]>>

\* a notification from handle is being dispatched: this step hands it to the
\* delegate, or its dispatch is still running
C37_Dispatching(handle) ==
    \/ disp'.tick # disp.tick /\ disp'.handle = handle
    \/ disp'.tick = disp.tick /\ disp.state = "running" /\ disp.handle = handle

\* C37: the dispatch of a notification from ACK_COMMAND_SENT (fb1b) or
\* ACK_HIGH_PRIORITY (fb1c) is over in its step, sets the flag of SEND_WITH_ACK
\* or of SEND_HIGH_PRIORITY and leaves the other flag, every counter, the
\* sensors, the sensor cache and the transport's frames as they were; the
\* dispatch of one from ACK_DRONE_DATA (fb0e), to the end of its ack of receipt
\* and also inside a send-with-ack cycle, leaves both flags, the counters of
\* SEND_WITH_ACK, SEND_NO_ACK and SEND_HIGH_PRIORITY, the frames on those
\* channels, the tables of characteristics and the command cache as they were.
C37_DispatchChannelLocal ==
    /\ [][\A h \in {<<"fb", "1b">>, <<"fb", "1c">>} :
            (disp'.tick # disp.tick /\ disp'.handle = h) =>
                /\ disp'.state # "running"
                /\ characteristic_send_counter' = characteristic_send_counter
                /\ issued' = issued
                /\ sensors' = sensors
                /\ sensor_tuple_cache' = sensor_tuple_cache
                /\ wire' = wire
                /\ ~HasFrame(stack', "_safe_ble_write")
                /\ disp'.state = "returned" =>
                      command_received' =
                          [command_received EXCEPT
                              ![IF h = <<"fb", "1b">> THEN "SEND_WITH_ACK"
                                ELSE "SEND_HIGH_PRIORITY"] = TRUE]
                /\ disp'.state = "raised" => command_received' = command_received]_vars
    /\ [][C37_Dispatching(<<"fb", "0e">>) =>
            /\ command_received' = command_received
            /\ C37_SendCounters' = C37_SendCounters
            /\ \A ch \in DOMAIN wire : ch # "ACK_COMMAND" => wire'[ch] = wire[ch]
            /\ cyc'.writes = cyc.writes
            /\ UNCHANGED <<tables, delegate, command_tuple_cache>>]_vars

\* a battery report was dispatched and acked between two writes of a cycle
C37_Witness ==
    /\ cyc.active /\ cyc.writes = 1 /\ cyc.acks = 0
    /\ disp.state = "returned" /\ ~disp.idle
    /\ disp.handle = <<"fb", "0e">> /\ Len(disp.acks) = 1
    /\ sensors.battery = PyInt(80)
    /\ characteristic_send_counter["ACK_COMMAND"] = 1
    /\ characteristic_send_counter["SEND_WITH_ACK"] = 1
    /\ wire["ACK_COMMAND"].cmd = 1
    /\ ~command_received["SEND_WITH_ACK"]

====
